---- MODULE Spec2Model ----
(***************************************************************************)
(* A model of the flash-cache engine (package cache_engine, CacheEngine)   *)
(* and of the raft state machine of a data partition (package datanode).   *)
(*                                                                         *)
(* CacheEngine wires an LRU index, 4 stripe locks, a prepare-task channel  *)
(* and a pool of prepare workers.  The engine's own code is translated     *)
(* step by step; a step is one access to shared state (a stripe lock, one  *)
(* call of the LRU, one channel operation).  The LRU index (NewCache) and  *)
(* the cache block (NewCacheBlock, InitOnce, initCacheStore, Close,        *)
(* Delete) are the engine's collaborators: they are modelled from their    *)
(* documented contract.                                                    *)
(***************************************************************************)
EXTENDS Integers, Sequences, FiniteSets, TLC

(***************************************************************************)
(* Bounds of the model.                                                    *)
(***************************************************************************)
\* caller goroutines that invoke the engine's public operations
NumCallers == 2
\* prepare workers (the code starts 20, startCachePrepareWorkers)
NumWorkers == 2
\* operations the callers may begin in one behaviour
MaxOps == 3
\* cache blocks constructed in one behaviour
MaxBlocks == 3
\* the clock runs from 0 to MaxTime seconds
MaxTime == 1
\* calls of NewCacheEngine on the one root path in one behaviour
NumEngines == 2
\* the raft log indexes run from 1 to MaxIndex
MaxIndex == 3
\* entries raft applies to the data partition, and leader changes it notifies,
\* in one behaviour
MaxCalls == 3
\* raft nodes
NumNodes == 2

(***************************************************************************)
(* Inputs of NewCacheEngine.                                               *)
(***************************************************************************)
\* totalSize
TotalSize == 4
\* maxUseRatio, as the fraction RatioNum / RatioDen
RatioNum == 3
RatioDen == 4
\* capacity
Capacity == 2
\* the size argument the readers pass to GetCacheBlockForRead
ReadSize == 7
\* expireTime, in seconds
ExpireTime == 2

(***************************************************************************)
(* Program constants.                                                      *)
(***************************************************************************)
\* make(chan *cachePrepareTask, 1024)
PrepareTaskChCap == 1024
\* initCacheLock: 4 stripes; getCacheLock: crc & 3
NumLocks == 4
\* proto.DefaultCacheTTLSec
DefaultCacheTTLSec == 300
\* proto.ActionCacheExpire / proto.ActionCacheEvict, kept symbolic
ActionCacheExpire == "CacheExpire"
ActionCacheEvict == "CacheEvict"

Nil == "nil"
\* the nil *CacheBlock; the blocks are numbered from 1
NoBlock == 0

Callers == 1 .. NumCallers
Workers == (NumCallers + 1) .. (NumCallers + NumWorkers)
Threads == Callers \cup Workers
Stripes == 0 .. (NumLocks - 1)

(***************************************************************************)
(* Strings are sequences of one-character strings, so that the key format  *)
(* and the splitting of keys are computed, not assumed.                    *)
(***************************************************************************)
Digit(d) ==
  CASE d = 0 -> "0" [] d = 1 -> "1" [] d = 2 -> "2" [] d = 3 -> "3" [] d = 4 -> "4"
    [] d = 5 -> "5" [] d = 6 -> "6" [] d = 7 -> "7" [] d = 8 -> "8" [] d = 9 -> "9"

RECURSIVE FormatUint(_)
\* strconv.FormatUint(n, 10)
FormatUint(n) ==
  IF n < 10 THEN << Digit(n) >> ELSE FormatUint(n \div 10) \o << Digit(n % 10) >>

\* volume + "/" + inode + "#" + offset + "#" + version
GenCacheBlockKey(volume, inode, offset, version) ==
  volume \o << "/" >> \o FormatUint(inode) \o << "#" >> \o FormatUint(offset)
         \o << "#" >> \o FormatUint(version)

\* the byte of a character (ASCII), for the characters the keys are made of
Ord(ch) ==
  CASE ch = "#" -> 35 [] ch = "/" -> 47
    [] ch = "0" -> 48 [] ch = "1" -> 49 [] ch = "2" -> 50 [] ch = "3" -> 51
    [] ch = "4" -> 52 [] ch = "5" -> 53 [] ch = "6" -> 54 [] ch = "7" -> 55
    [] ch = "8" -> 56 [] ch = "9" -> 57
    [] ch = "a" -> 97 [] ch = "b" -> 98 [] ch = "c" -> 99

RECURSIVE XorBits(_, _, _)
\* bitwise exclusive or of two naturals below 2^w
XorBits(a, b, w) ==
  IF w = 0 THEN 0
  ELSE ((a + b) % 2) + 2 * XorBits(a \div 2, b \div 2, w - 1)

(***************************************************************************)
(* A 32-bit word is the pair of its 16-bit halves << high, low >>.         *)
(***************************************************************************)
Half == 65536

Xor32(a, b) == << XorBits(a[1], b[1], 16), XorBits(a[2], b[2], 16) >>

\* c >> 1
Shr1(c) == << c[1] \div 2, (c[2] \div 2) + (c[1] % 2) * (Half \div 2) >>

\* the reflected IEEE polynomial 0xEDB88320
Crc32PolyHigh == 60856
Crc32PolyLow == 33568

RECURSIVE CrcShift(_, _)
CrcShift(c, k) ==
  IF k = 0 THEN c
  ELSE CrcShift(IF c[2] % 2 = 1 THEN Xor32(Shr1(c), << Crc32PolyHigh, Crc32PolyLow >>)
                ELSE Shr1(c), k - 1)

RECURSIVE CrcUpdate(_, _)
\* (c[2] < 0 never holds; the test makes the evaluation of c strict)
CrcUpdate(c, s) ==
  IF s = << >> \/ c[2] < 0 THEN c
  ELSE CrcUpdate(CrcShift(Xor32(c, << 0, Ord(Head(s)) >>), 8), Tail(s))

\* fastcrc32.Checksum([]byte(key)), as << high, low >>
Checksum(s) ==
  Xor32(CrcUpdate(<< Half - 1, Half - 1 >>, s), << Half - 1, Half - 1 >>)

(***************************************************************************)
(* Requests.  A data source keeps its extent id and its size; a request    *)
(* keeps the fields of proto.CacheRequest the engine reads.                *)
(***************************************************************************)
VolA == << "a" >>
VolB == << "b" >>

Source(id, size) == [ExtentID |-> id, Size_ |-> size]

Request(vol, inode, ttl, sources) ==
  [Volume |-> vol, Inode |-> inode, FixedFileOffset |-> 0, Version |-> 1,
   TTL |-> ttl, Sources |-> sources]

\* the requests the callers draw from: three keys (two inodes of volume a,
\* one of volume b), the first key with two different source lists, and the
\* rejected shapes: no source, a zero-sized source, more than MaxAlloc
ReqA1 == Request(VolA, 1, 1, << Source(1, 1) >>)
ReqA1Wide == Request(VolA, 1, 0, << Source(1, 1), Source(2, 2) >>)
ReqA12 == Request(VolA, 12, 1, << Source(3, 1) >>)
ReqB1 == Request(VolB, 1, 0, << Source(4, 1) >>)
ReqNoSource == Request(VolA, 1, 1, << >>)
ReqZero == Request(VolA, 1, 1, << Source(5, 0) >>)
ReqBig == Request(VolB, 1, 1, << Source(6, TotalSize) >>)

Requests == {ReqA1, ReqA1Wide, ReqA12, ReqB1, ReqNoSource, ReqZero, ReqBig}

KeyOf(req) ==
  GenCacheBlockKey(req.Volume, req.Inode, req.FixedFileOffset, req.Version)

Keys == {KeyOf(r) : r \in Requests}
Volumes == {r.Volume : r \in Requests}
Inodes == {r.Inode : r \in Requests}

\* getCacheLock: c.locks[crc & 3]; the low half of the checksum decides
getCacheLock(key) == Checksum(key)[2] % NumLocks

\* the stripe of every key, computed once
StripeOf == [k \in Keys |-> getCacheLock(k)]

RECURSIVE SumSizes(_)
SumSizes(sources) ==
  IF sources = << >> THEN 0 ELSE Head(sources).Size_ + SumSizes(Tail(sources))

\* computeAllocSize: the bytes the sources of a block add up to
computeAllocSize(sources) == SumSizes(sources)

\* NewCacheEngine: MaxAlloc = int64(float64(totalSize) * maxUseRatio)
MaxAlloc == (TotalSize * RatioNum) \div RatioDen

\* the count cap with which the engine wires the LRU index differently
LruCapacity_MaxAlloc == MaxAlloc

\* NewCacheEngine: NewCache(s.config.Capacity, ...), the count cap of the LRU
LruCapacity == Capacity

\* the byte cap without the max-use ratio
LruMaxAlloc_Total == TotalSize

\* NewCacheEngine: NewCache(..., s.config.MaxAlloc, ...), the byte cap of the LRU
LruMaxAlloc == MaxAlloc

(***************************************************************************)
(* Cache blocks.  `bs` is the pair of the block objects and of the files   *)
(* under the root path: [blocks |-> id -> block, files |-> set of paths].  *)
(* The file of a block is named by its key.  A block records the sources   *)
(* read into it (reads), the destructor calls made on it (log) and whether *)
(* Set has put it into the LRU (inserted).                                 *)
(***************************************************************************)
\* NewCacheBlock(rootPath, volume, inode, fixedOffset, version, allocSize, readFunc)
NewCacheBlock(key, allocSize) ==
  [key |-> key, allocSize |-> allocSize, store |-> "none", once |-> "fresh",
   reads |-> << >>, log |-> << >>, inserted |-> FALSE]

\* CacheBlock.Close: release the file handle
BlockClose(bs, b) == [bs EXCEPT !.blocks[b].log = Append(@, "Close")]

\* CacheBlock.Delete: unlink the backing file
BlockDelete(bs, b) ==
  [blocks |-> [bs.blocks EXCEPT ![b].log = Append(@, "Delete")],
   files |-> bs.files \ {bs.blocks[b].key}]

\* the LRU's delete callback, NewCacheEngine: cb.Delete()
OnDelete(bs, v) == BlockDelete(bs, v)

\* the close callback unlinks the file, as the delete callback does
OnClose_Delete(bs, v) == BlockDelete(bs, v)

\* the LRU's close callback, NewCacheEngine: cb.Close()
OnClose(bs, v) == BlockClose(bs, v)

(***************************************************************************)
(* The LRU index.  `c` is [items, hits, misses, closed]; items is the      *)
(* sequence of entries [key, value, expire], most recently used first.     *)
(***************************************************************************)
\* the destructor chain of a removed entry: on_close, then on_delete
Destruct(bs, v) == OnDelete(OnClose(bs, v), v)

RECURSIVE DestructAll(_, _)
DestructAll(bs, vs) ==
  IF vs = << >> THEN bs ELSE DestructAll(Destruct(bs, Head(vs)), Tail(vs))

Present(items, key) == \E i \in 1 .. Len(items) : items[i].key = key

IndexOf(items, key) == CHOOSE i \in 1 .. Len(items) : items[i].key = key

Without(items, i) == SubSeq(items, 1, i - 1) \o SubSeq(items, i + 1, Len(items))

RECURSIVE UsedBytes(_, _)
UsedBytes(blocks, items) ==
  IF items = << >> THEN 0
  ELSE blocks[Head(items).value].allocSize + UsedBytes(blocks, Tail(items))

\* the length of the longest prefix of items within the count and byte caps
RECURSIVE KeepLen(_, _, _)
KeepLen(blocks, items, n) ==
  IF n <= LruCapacity /\ UsedBytes(blocks, SubSeq(items, 1, n)) <= LruMaxAlloc THEN n
  ELSE KeepLen(blocks, items, n - 1)

Values(items) == [i \in 1 .. Len(items) |-> items[i].value]

Reverse(s) == [i \in 1 .. Len(s) |-> s[Len(s) + 1 - i]]

\* peek(key): the presence test, no promotion, no statistics, no expiry
LruPeek(c, key) ==
  IF ~c.closed /\ Present(c.items, key) THEN c.items[IndexOf(c.items, key)].value
  ELSE NoBlock

\* get(key) at time t: [c, bs, value, err]
LruGet(c, bs, key, t) ==
  IF c.closed \/ ~Present(c.items, key) THEN
    [c |-> [c EXCEPT !.misses = @ + 1], bs |-> bs, value |-> NoBlock, err |-> "Missing"]
  ELSE LET i == IndexOf(c.items, key)
           e == c.items[i]
       IN IF t < e.expire THEN
            [c |-> [c EXCEPT !.items = << e >> \o Without(c.items, i), !.hits = @ + 1],
             bs |-> bs, value |-> e.value, err |-> Nil]
          ELSE
            [c |-> [c EXCEPT !.items = Without(c.items, i), !.misses = @ + 1],
             bs |-> Destruct(bs, e.value), value |-> NoBlock, err |-> "CacheExpire"]

\* set(key, value, ttl) at time t: [c, bs, n, err]
LruSet(c, bs, key, v, ttl, t) ==
  IF c.closed THEN [c |-> c, bs |-> bs, n |-> 0, err |-> "Closed"]
  ELSE IF bs.blocks[v].allocSize > LruMaxAlloc THEN
    [c |-> c, bs |-> bs, n |-> 0, err |-> "OverWeight"]
  ELSE LET old == IF Present(c.items, key)
                  THEN << c.items[IndexOf(c.items, key)].value >> ELSE << >>
           rest == IF Present(c.items, key)
                   THEN Without(c.items, IndexOf(c.items, key)) ELSE c.items
           all == << [key |-> key, value |-> v, expire |-> t + ttl] >> \o rest
           keep == KeepLen(bs.blocks, all, Len(all))
           tail == SubSeq(all, keep + 1, Len(all))
       IN [c |-> [c EXCEPT !.items = SubSeq(all, 1, keep)],
           bs |-> DestructAll(bs, old \o Reverse(Values(tail))),
           n |-> UsedBytes(bs.blocks, tail), err |-> Nil]

\* evict(key): [c, bs, ok]
LruEvict(c, bs, key) ==
  IF c.closed \/ ~Present(c.items, key) THEN [c |-> c, bs |-> bs, ok |-> FALSE]
  ELSE LET i == IndexOf(c.items, key)
       IN [c |-> [c EXCEPT !.items = Without(c.items, i)],
           bs |-> Destruct(bs, c.items[i].value), ok |-> TRUE]

\* evict_all(): [c, bs]
LruEvictAll(c, bs) ==
  [c |-> [c EXCEPT !.items = << >>], bs |-> DestructAll(bs, Values(c.items))]

\* close(): evict_all, then refuse further operations
LruClose(c, bs) ==
  [c |-> [c EXCEPT !.items = << >>, !.closed = TRUE],
   bs |-> DestructAll(bs, Values(c.items))]

\* keys(): the keys, most recently used first
LruKeys(c) == [i \in 1 .. Len(c.items) |-> c.items[i].key]

(***************************************************************************)
(* The state.                                                              *)
(***************************************************************************)
VARIABLES
  cache,    \* the LRU index: [items, hits, misses, closed]
  bs,       \* the cache blocks and the files under the root path
  locks,    \* the stripe locks: stripe -> [w: the writer or 0, r: the readers]
  taskCh,   \* cachePrepareTaskCh: the queued prepare tasks, oldest first
  closeC,   \* TRUE once closeC is closed
  closed,   \* CacheEngine.closed
  store,    \* the root path and the calls of NewCacheEngine on it: [layers, eng]
  now,      \* the clock, in seconds
  budget,   \* the operations the callers may still begin
  th,       \* thread -> its position and local variables
  dp        \* the data partition's raft state machine (DataPartition)

vars == << cache, bs, locks, taskCh, closeC, closed, store, now, budget, th, dp >>

\* the nil *proto.CacheRequest
NoRequest == Request(<< >>, 0, 0, << >>)

\* the local variables of a thread between two operations
Idle ==
  [pc |-> "idle", op |-> Nil, req |-> NoRequest, key |-> << >>, vol |-> << >>, blk |-> NoBlock,
   n |-> 0, err |-> Nil, ret |-> NoBlock, mon |-> << >>, sent |-> Nil,
   keys |-> << >>, failed |-> << >>, held |-> {}]

(***************************************************************************)
(* The root path.  store.layers is what is stacked at the path, the top    *)
(* first: tmpfs or foreign mounts over the directory itself (the last      *)
(* layer); it is empty while the path does not exist.  A layer is          *)
(* [kind, gen, size, names]: gen is the call of NewCacheEngine that        *)
(* mounted it (0: none of this behaviour), names its entries other than    *)
(* the block files, which bs.files holds for the top layer.  store.eng is  *)
(* the position and the local variables of every call of NewCacheEngine.   *)
(***************************************************************************)
Engines == 1 .. NumEngines

\* the sentinel <root>/.init
InitFileName == << ".", "i", "n", "i", "t" >>
\* an entry that no engine has written
Foreign == << "x" >>

Layer(kind, gen, size, names) == [kind |-> kind, gen |-> gen, size |-> size, names |-> names]

Dir(names) == Layer("dir", 0, 0, names)

\* tmpfs.IsMountPoint
IsMountPoint(layers) == Len(layers) > 1

\* tmpfs.IsTmpfs
IsTmpfs(layers) == layers # << >> /\ Head(layers).kind = "tmpfs"

\* initFileExists: os.Stat(rootPath + "/" + InitFileName) returns no error
initFileExists(layers) == layers # << >> /\ InitFileName \in Head(layers).names

\* os.ReadDir(rootPath): the entries of the top layer, the block files included
ReadDir(layers, files) == IF layers = << >> THEN {} ELSE Head(layers).names \cup files

\* tmpfs.MountTmpfs(rootPath, size) by the call e
MountTmpfs(layers, e, size) == << Layer("tmpfs", e, size, {}) >> \o layers

\* tmpfs.Umount(rootPath)
Umount(layers) == Tail(layers)

\* createInitFile: os.OpenFile(rootPath + "/" + InitFileName, os.O_CREATE, 0666)
createInitFile(layers) ==
  << [Head(layers) EXCEPT !.names = @ \cup {InitFileName}] >> \o Tail(layers)

\* a call of NewCacheEngine that has not begun
NotBegun == [pc |-> "new", err |-> Nil, mounted |-> FALSE, log |-> << >>, saw |-> {}]

\* what a successful NewCacheEngine(rootPath, TotalSize, ...) by the call e
\* leaves at a path that did not exist
Mounted(e) == << Layer("tmpfs", e, TotalSize, {InitFileName}), Dir({}) >>

\* the root path after the engine was constructed by the first call
StoreOfEngine ==
  [layers |-> Mounted(1),
   eng |-> [e \in Engines |-> IF e = 1 THEN [NotBegun EXCEPT !.pc = "live"] ELSE NotBegun]]

\* the state NewCacheEngine and Start leave: an empty LRU over a fresh mount,
\* free locks, an empty task channel, the workers waiting for a task
(***************************************************************************)
(* The data partition as a raft state machine (DataPartition).  `dp` holds *)
(* the fields the raft callbacks read and write, the position of the       *)
(* goroutine in which raft applies its log, the state of the request on    *)
(* PersistApplyIdChan, and the last call with its results.                 *)
(***************************************************************************)
Nodes == 1 .. NumNodes
\* dp.config.NodeID
NodeID == 1
\* a raft log entry has an index of at least 1
Indexes == 1 .. MaxIndex

\* BinaryMarshalMagicVersion and a version that is not it, kept symbolic
BinaryMarshalMagicVersion == "magic"
OtherVersion == "v0"
\* proto.OpOk and the status of a failed random write, kept symbolic
OpOk == "OpOk"
OpErr == "OpErr"
\* proto.OpVersionOp, kept symbolic
OpVersionOp == "OpVersionOp"

\* the commands raft hands to Apply: the words of the command, the version
\* first; one too short to hold a version, commands of an older version (one
\* that does not unmarshal, a version operation, another operation), and a
\* random write
Commands ==
  { << >>,
    << OtherVersion, "bad" >>,
    << OtherVersion, OpVersionOp >>,
    << OtherVersion, "OpOther" >>,
    << BinaryMarshalMagicVersion, "write" >> }

\* the configuration changes raft hands to ApplyMemberChange
ConfChanges ==
  [Type : {"ConfAddNode", "ConfRemoveNode", "ConfUpdateNode", "ConfOther"},
   Context : {"request", "bad"}]

\* what addRaftNode / removeRaftNode return
MemberResults == [isUpdated : BOOLEAN, err : {Nil, "member change failed"}]

\* what a call was given and what it returned; of a member change also the
\* change, what addRaftNode or removeRaftNode returned, and whether
\* PersistMetadata succeeded
NoCall ==
  [op |-> Nil, index |-> 0, cmd |-> << >>, resp |-> Nil, err |-> Nil,
   change |-> [Type |-> "ConfOther", Context |-> "request"], m |-> [isUpdated |-> FALSE, err |-> Nil], metaOk |-> TRUE,
   closed |-> FALSE, sent |-> FALSE, done |-> FALSE]

\* a data partition loaded with its persisted and its current applied ID
NewDataPartition(meta, applied) ==
  [pc |-> "idle", metaAppliedID |-> meta, appliedID |-> applied, storeApplyId |-> applied,
   storeClosed |-> FALSE, writes |-> << >>, versionOps |-> 0,
   isRaftLeader |-> FALSE, leader |-> 0,
   createType |-> "other", metaPersists |-> 0,
   persist |-> "none", persisted |-> 0,
   call |-> NoCall, calls |-> 0, notified |-> 0]

Init ==
  /\ cache = [items |-> << >>, hits |-> 0, misses |-> 0, closed |-> FALSE]
  /\ bs = [blocks |-> << >>, files |-> {}]
  /\ locks = [s \in Stripes |-> [w |-> 0, r |-> {}]]
  /\ taskCh = << >>
  /\ closeC = FALSE
  /\ closed = FALSE
  /\ store = StoreOfEngine
  /\ now = 0
  /\ budget = MaxOps
  /\ th = [t \in Threads |-> IF t \in Callers THEN Idle ELSE [Idle EXCEPT !.pc = "w_recv"]]
  /\ dp = NewDataPartition(0, 0)

(***************************************************************************)
(* The stripe locks (sync.RWMutex).                                        *)
(***************************************************************************)
CanLock(s) == locks[s].w = 0 /\ locks[s].r = {}
CanRLock(s) == locks[s].w = 0
Lock(s, t) == [locks EXCEPT ![s].w = t]
Unlock(s) == [locks EXCEPT ![s].w = 0]
RLock(s, t) == [locks EXCEPT ![s].r = @ \cup {t}]
RUnlock(s, t) == [locks EXCEPT ![s].r = @ \ {t}]

\* the callers that may still construct a block in their running operation
MayConstruct == {t \in Callers : th[t].pc \in {"cc_lock", "cc_peek"}}

\* a caller may begin an operation when it runs none: it has begun none yet, or
\* its last one is done (its results stay in its record until the next)
CanBegin(t) == th[t].pc \in {"idle", "done"} /\ budget > 0

(***************************************************************************)
(* NewCacheEngine on the root path: os.MkdirAll, then doMount and          *)
(* initTmpfs, one step for each call that reads or changes the path.       *)
(***************************************************************************)
\* the call e moves on with the local variables r, the path becomes layers
Moved(e, r, layers) == [layers |-> layers, eng |-> [store.eng EXCEPT ![e] = r]]

\* the call e returns the error err
Failed(r, err) == [r EXCEPT !.pc = "failed", !.err = err]

\* NewCacheEngine: os.MkdirAll(rootPath, 0755)
NewMkdirAll(e) ==
  /\ store.eng[e].pc = "new"
  /\ LET r == store.eng[e]
     IN store' = IF store.layers = << >>
                 THEN Moved(e, [r EXCEPT !.pc = "stat", !.log = Append(@, "mkdir"),
                                         !.saw = @ \cup {"absent"}], << Dir({}) >>)
                 ELSE Moved(e, [r EXCEPT !.pc = "stat"], store.layers)
  /\ UNCHANGED << cache, bs, locks, taskCh, closeC, closed, now, budget, th, dp >>

\* doMount: os.Stat(rootPath); a path that does not exist goes to initTmpfs
MountStat(e) ==
  /\ store.eng[e].pc = "stat"
  /\ store' = Moved(e, [store.eng[e] EXCEPT !.pc = IF store.layers = << >> THEN "mount"
                                                   ELSE "ismount"], store.layers)
  /\ UNCHANGED << cache, bs, locks, taskCh, closeC, closed, now, budget, th, dp >>

\* doMount: mounted, err = tmpfs.IsMountPoint(rootPath)
MountIsMountPoint(e) ==
  /\ store.eng[e].pc = "ismount"
  /\ LET m == IsMountPoint(store.layers)
     IN store' = Moved(e, [store.eng[e] EXCEPT !.pc = "istmpfs", !.mounted = m,
                             !.saw = @ \cup {IF m THEN "mounted" ELSE "unmounted"}],
                       store.layers)
  /\ UNCHANGED << cache, bs, locks, taskCh, closeC, closed, now, budget, th, dp >>

\* the test that takes every mount for a tmpfs mount
MountIsTmpfs_AnyMount(e) ==
  /\ store.eng[e].pc = "istmpfs"
  /\ store' = Moved(e, [store.eng[e] EXCEPT !.pc = "initfile"], store.layers)
  /\ UNCHANGED << cache, bs, locks, taskCh, closeC, closed, now, budget, th, dp >>

\* doMount: if mounted && !tmpfs.IsTmpfs(rootPath), the error
MountIsTmpfs(e) ==
  /\ store.eng[e].pc = "istmpfs"
  /\ LET r == store.eng[e]
     IN store' = IF r.mounted /\ ~IsTmpfs(store.layers)
                 THEN Moved(e, Failed([r EXCEPT !.saw = @ \cup {"other"}],
                                      "already mounted by another device"), store.layers)
                 ELSE Moved(e, [r EXCEPT !.pc = "initfile"], store.layers)
  /\ UNCHANGED << cache, bs, locks, taskCh, closeC, closed, now, budget, th, dp >>

\* doMount: if mounted && c.initFileExists(), the mount is taken for a stale one
MountInitFile(e) ==
  /\ store.eng[e].pc = "initfile"
  /\ LET r == store.eng[e]
     IN store' = IF r.mounted /\ initFileExists(store.layers)
                 THEN Moved(e, [r EXCEPT !.pc = "umount", !.saw = @ \cup {"init"}], store.layers)
                 ELSE Moved(e, [r EXCEPT !.pc = "readdir"], store.layers)
  /\ UNCHANGED << cache, bs, locks, taskCh, closeC, closed, now, budget, th, dp >>

\* doMount: err = tmpfs.Umount(rootPath); the files of the mount go with it
MountUmount(e, ok) ==
  /\ store.eng[e].pc = "umount"
  /\ LET r == store.eng[e]
     IN IF ok /\ IsMountPoint(store.layers)
        THEN /\ store' = Moved(e, [r EXCEPT !.pc = "mount", !.log = Append(@, "umount")],
                               Umount(store.layers))
             /\ bs' = [bs EXCEPT !.files = {}]
        ELSE /\ store' = Moved(e, Failed(r, "umount failed"), store.layers)
             /\ bs' = bs
  /\ UNCHANGED << cache, locks, taskCh, closeC, closed, now, budget, th, dp >>

\* doMount: fds, err = os.ReadDir(rootPath); a directory with entries is an error
MountReadDir(e) ==
  /\ store.eng[e].pc = "readdir"
  /\ LET r == store.eng[e]
     IN store' = IF ReadDir(store.layers, bs.files) # {}
                 THEN Moved(e, Failed([r EXCEPT !.saw = @ \cup {"nonempty"}], "not empty dir"),
                            store.layers)
                 ELSE Moved(e, [r EXCEPT !.pc = "mount", !.saw = @ \cup {"empty"}], store.layers)
  /\ UNCHANGED << cache, bs, locks, taskCh, closeC, closed, now, budget, th, dp >>

\* initTmpfs: err = tmpfs.MountTmpfs(rootPath, c.config.Total); the new mount
\* hides what was at the path
InitTmpfsMount(e, ok) ==
  /\ store.eng[e].pc = "mount"
  /\ LET r == store.eng[e]
     IN IF ok /\ store.layers # << >>
        THEN /\ store' = Moved(e, [r EXCEPT !.pc = "sentinel", !.log = Append(@, "mount")],
                               MountTmpfs(store.layers, e, TotalSize))
             /\ bs' = [bs EXCEPT !.files = {}]
        ELSE /\ store' = Moved(e, Failed(r, "mount failed"), store.layers)
             /\ bs' = bs
  /\ UNCHANGED << cache, locks, taskCh, closeC, closed, now, budget, th, dp >>

\* initTmpfs: err = c.createInitFile(), and NewCacheEngine returns the engine
InitTmpfsFile(e) ==
  /\ store.eng[e].pc = "sentinel"
  /\ LET r == store.eng[e]
     IN store' = IF store.layers = << >>
                 THEN Moved(e, Failed(r, "create init file failed"), store.layers)
                 ELSE Moved(e, [r EXCEPT !.pc = "live", !.log = Append(@, "sentinel")],
                            createInitFile(store.layers))
  /\ UNCHANGED << cache, bs, locks, taskCh, closeC, closed, now, budget, th, dp >>

\* the steps of one call of NewCacheEngine
StartSteps(e) ==
  \/ NewMkdirAll(e)
  \/ MountStat(e)
  \/ MountIsMountPoint(e)
  \/ MountIsTmpfs(e)
  \/ MountInitFile(e)
  \/ \E ok \in BOOLEAN : MountUmount(e, ok)
  \/ MountReadDir(e)
  \/ \E ok \in BOOLEAN : InitTmpfsMount(e, ok)
  \/ InitTmpfsFile(e)

(***************************************************************************)
(* CreateBlock and PrepareCache.                                           *)
(***************************************************************************)
\* the return of CreateBlock with its block, to PrepareCache, which goes on to
\* post the task
Admitted(l, b) == [l EXCEPT !.pc = "pc_send", !.blk = b, !.err = Nil]

\* BeginCreate without the test of len(req.Sources)
BeginCreate_NoSourceCheck(t, req) ==
  /\ CanBegin(t)
  /\ Len(bs.blocks) + Cardinality(MayConstruct) < MaxBlocks
  /\ LET alloc == computeAllocSize(req.Sources)
         l == [Idle EXCEPT !.op = "PrepareCache", !.req = req, !.key = KeyOf(req), !.vol = req.Volume]
     IN th' = [th EXCEPT ![t] =
                 IF alloc = 0 THEN [l EXCEPT !.pc = "cb_delete", !.err = "alloc size is zero"]
                 ELSE [l EXCEPT !.pc = "cc_lock"]]
  /\ budget' = budget - 1
  /\ UNCHANGED << cache, bs, locks, taskCh, closeC, closed, store, now, dp >>

\* CreateBlock up to its call of createCacheBlock, and createCacheBlock up to
\* lock.Lock(): no source, or a zero alloc size, is an error
BeginCreate(t, req) ==
  /\ CanBegin(t)
  /\ Len(bs.blocks) + Cardinality(MayConstruct) < MaxBlocks
  /\ LET alloc == computeAllocSize(req.Sources)
         l == [Idle EXCEPT !.op = "PrepareCache", !.req = req, !.key = KeyOf(req), !.vol = req.Volume]
     IN th' = [th EXCEPT ![t] =
                 IF Len(req.Sources) = 0 THEN [l EXCEPT !.pc = "done", !.err = "no source data"]
                 ELSE IF alloc = 0 THEN [l EXCEPT !.pc = "cb_delete", !.err = "alloc size is zero"]
                 ELSE [l EXCEPT !.pc = "cc_lock"]]
  /\ budget' = budget - 1
  /\ UNCHANGED << cache, bs, locks, taskCh, closeC, closed, store, now, dp >>

\* createCacheBlock: lock.Lock()
CreateLock(t) ==
  /\ th[t].pc = "cc_lock"
  /\ CanLock(StripeOf[th[t].key])
  /\ locks' = Lock(StripeOf[th[t].key], t)
  /\ th' = [th EXCEPT ![t].pc = "cc_peek"]
  /\ UNCHANGED << cache, bs, taskCh, closeC, closed, store, now, budget, dp >>

\* CreatePeek without the Peek: a block is constructed whatever the LRU holds
CreatePeek_NoPeek(t) ==
  /\ th[t].pc = "cc_peek"
  /\ bs' = [bs EXCEPT !.blocks =
              Append(@, NewCacheBlock(th[t].key, computeAllocSize(th[t].req.Sources)))]
  /\ th' = [th EXCEPT ![t].pc = "cc_set", ![t].blk = Len(bs.blocks) + 1]
  /\ UNCHANGED << cache, locks, taskCh, closeC, closed, store, now, budget, dp >>

\* the createCacheBlock that looks the block up with Get
CreatePeek_Get(t) ==
  /\ th[t].pc = "cc_peek"
  /\ LET l == th[t]
         r == LruGet(cache, bs, l.key, now)
     IN IF r.value # NoBlock
        THEN /\ locks' = Unlock(StripeOf[l.key])
             /\ th' = [th EXCEPT ![t] = Admitted(l, r.value)]
             /\ bs' = r.bs
             /\ cache' = r.c
        ELSE /\ bs' = [r.bs EXCEPT !.blocks =
                         Append(@, NewCacheBlock(l.key, computeAllocSize(l.req.Sources)))]
             /\ th' = [th EXCEPT ![t] = [l EXCEPT !.pc = "cc_set", !.blk = Len(bs.blocks) + 1]]
             /\ locks' = locks
             /\ cache' = r.c
  /\ UNCHANGED << taskCh, closeC, closed, store, now, budget, dp >>

\* createCacheBlock: the Peek under the lock; a present block is returned after
\* the unlock, otherwise the new block is constructed
CreatePeek(t) ==
  /\ th[t].pc = "cc_peek"
  /\ LET l == th[t]
         v == LruPeek(cache, l.key)
     IN IF v # NoBlock
        THEN /\ locks' = Unlock(StripeOf[l.key])
             /\ th' = [th EXCEPT ![t] = Admitted(l, v)]
             /\ bs' = bs
        ELSE /\ bs' = [bs EXCEPT !.blocks =
                         Append(@, NewCacheBlock(l.key, computeAllocSize(l.req.Sources)))]
             /\ th' = [th EXCEPT ![t] = [l EXCEPT !.pc = "cc_set", !.blk = Len(bs.blocks) + 1]]
             /\ locks' = locks
  /\ UNCHANGED << cache, taskCh, closeC, closed, store, now, budget, dp >>

\* the ttl createCacheBlock hands to Set
SetTTL(ttl) == IF ttl <= 0 THEN DefaultCacheTTLSec ELSE ttl

\* createCacheBlock: n, err = c.lruCache.Set(key, block, ttl)
CreateSet(t) ==
  /\ th[t].pc = "cc_set"
  /\ LET l == th[t]
         r == LruSet(cache, bs, l.key, l.blk, SetTTL(l.req.TTL), now)
     IN /\ cache' = r.c
        /\ bs' = [r.bs EXCEPT !.blocks[l.blk].inserted = (r.err = Nil)]
        /\ th' = [th EXCEPT ![t] = [l EXCEPT !.pc = "cc_unlock", !.n = r.n, !.err = r.err]]
  /\ UNCHANGED << locks, taskCh, closeC, closed, store, now, budget, dp >>

\* the unlock that goes on to initCacheStore whatever Set returned
CreateUnlock_IgnoreErr(t) ==
  /\ th[t].pc = "cc_unlock"
  /\ locks' = Unlock(StripeOf[th[t].key])
  /\ th' = [th EXCEPT ![t].pc = "cc_init"]
  /\ UNCHANGED << cache, bs, taskCh, closeC, closed, store, now, budget, dp >>

\* createCacheBlock: lock.Unlock(), and the return of Set's error
CreateUnlock(t) ==
  /\ th[t].pc = "cc_unlock"
  /\ locks' = Unlock(StripeOf[th[t].key])
  /\ th' = [th EXCEPT ![t].pc = IF th[t].err # Nil THEN "cb_delete" ELSE "cc_init"]
  /\ UNCHANGED << cache, bs, taskCh, closeC, closed, store, now, budget, dp >>

\* CacheBlock.initCacheStore: create and size the backing file; it may fail
initCacheStore(b, ok) ==
  [blocks |-> [bs.blocks EXCEPT ![b].store = IF ok THEN "ok" ELSE "failed"],
   files |-> IF ok THEN bs.files \cup {bs.blocks[b].key} ELSE bs.files]

\* the createCacheBlock that calls the monitor whatever n is
CreateInitStep_MonitorAlways(t, ok) ==
  /\ th[t].pc = "cc_init"
  /\ LET l == th[t]
         m == << << l.vol, ActionCacheEvict, l.n >> >>
     IN /\ bs' = initCacheStore(l.blk, ok)
        /\ th' = [th EXCEPT ![t] =
                    IF ok THEN Admitted([l EXCEPT !.mon = m], l.blk)
                    ELSE [l EXCEPT !.pc = "cb_delete", !.mon = m,
                                   !.err = "init cache store failed"]]
  /\ UNCHANGED << cache, locks, taskCh, closeC, closed, store, now, budget, dp >>

\* createCacheBlock after the unlock: block.initCacheStore(), the eviction
\* monitor call, the return
CreateInitStep(t, ok) ==
  /\ th[t].pc = "cc_init"
  /\ LET l == th[t]
         m == IF l.n > 0 THEN << << l.vol, ActionCacheEvict, l.n >> >> ELSE << >>
     IN /\ bs' = initCacheStore(l.blk, ok)
        /\ th' = [th EXCEPT ![t] =
                    IF ok THEN Admitted([l EXCEPT !.mon = m], l.blk)
                    ELSE [l EXCEPT !.pc = "cb_delete", !.mon = m,
                                   !.err = "init cache store failed"]]
  /\ UNCHANGED << cache, locks, taskCh, closeC, closed, store, now, budget, dp >>

\* initCacheStore succeeds
CreateInit(t) == CreateInitStep(t, TRUE)

\* initCacheStore fails
CreateInitFail(t) == CreateInitStep(t, FALSE)

\* CreateBlock on an error of createCacheBlock: deleteCacheBlock(key), and
\* the error is returned (by PrepareCache too, which posts no task)
CreateDelete(t) ==
  /\ th[t].pc = "cb_delete"
  /\ LET r == LruEvict(cache, bs, th[t].key)
     IN /\ cache' = r.c
        /\ bs' = r.bs
  /\ th' = [th EXCEPT ![t].pc = "done", ![t].ret = NoBlock]
  /\ UNCHANGED << locks, taskCh, closeC, closed, store, now, budget, dp >>

\* the post that fails the call when the channel is full
SendToPrepareTaskCh_ErrOnFull(t) ==
  /\ th[t].pc = "pc_send"
  /\ IF Len(taskCh) < PrepareTaskChCap
     THEN /\ taskCh' = Append(taskCh, [reqID |-> t, request |-> th[t].req])
          /\ th' = [th EXCEPT ![t].pc = "done", ![t].ret = th[t].blk, ![t].sent = "queued"]
     ELSE /\ taskCh' = taskCh
          /\ th' = [th EXCEPT ![t].pc = "done", ![t].ret = NoBlock, ![t].sent = "dropped",
                              ![t].err = "cachePrepareTaskCh has been full"]
  /\ UNCHANGED << cache, bs, locks, closeC, closed, store, now, budget, dp >>

\* the post without the default branch: it waits for room in the channel
SendToPrepareTaskCh_Blocking(t) ==
  /\ th[t].pc = "pc_send"
  /\ Len(taskCh) < PrepareTaskChCap
  /\ taskCh' = Append(taskCh, [reqID |-> t, request |-> th[t].req])
  /\ th' = [th EXCEPT ![t].pc = "done", ![t].ret = th[t].blk, ![t].sent = "queued"]
  /\ UNCHANGED << cache, bs, locks, closeC, closed, store, now, budget, dp >>

\* SendToPrepareTaskCh: the select with a default branch
SendToPrepareTaskCh(t) ==
  /\ th[t].pc = "pc_send"
  /\ IF Len(taskCh) < PrepareTaskChCap
     THEN /\ taskCh' = Append(taskCh, [reqID |-> t, request |-> th[t].req])
          /\ th' = [th EXCEPT ![t].pc = "done", ![t].ret = th[t].blk, ![t].sent = "queued"]
     ELSE /\ taskCh' = taskCh
          /\ th' = [th EXCEPT ![t].pc = "done", ![t].ret = th[t].blk, ![t].sent = "dropped"]
  /\ UNCHANGED << cache, bs, locks, closeC, closed, store, now, budget, dp >>

(***************************************************************************)
(* GetCacheBlockForRead and PeekCacheBlock.                                *)
(***************************************************************************)
\* GetCacheBlockForRead: the key, and lock.RLock()
BeginGet(t, req) ==
  /\ CanBegin(t)
  /\ CanRLock(StripeOf[KeyOf(req)])
  /\ locks' = RLock(StripeOf[KeyOf(req)], t)
  /\ th' = [th EXCEPT ![t] = [Idle EXCEPT !.pc = "g_get", !.op = "GetCacheBlockForRead",
                                          !.key = KeyOf(req), !.vol = req.Volume]]
  /\ budget' = budget - 1
  /\ UNCHANGED << cache, bs, taskCh, closeC, closed, store, now, dp >>

\* the read that calls the monitor on every error of Get
GetGet_MonitorAnyErr(t) ==
  /\ th[t].pc = "g_get"
  /\ LET l == th[t]
         r == LruGet(cache, bs, l.key, now)
     IN /\ cache' = r.c
        /\ bs' = r.bs
        /\ th' = [th EXCEPT ![t] =
                    [l EXCEPT !.pc = "done",
                              !.ret = r.value,
                              !.err = IF r.err = Nil THEN Nil ELSE "GetCacheBlockForRead",
                              !.mon = IF r.err # Nil
                                      THEN << << l.vol, ActionCacheExpire, ReadSize >> >>
                                      ELSE << >>]]
        /\ locks' = RUnlock(StripeOf[l.key], t)
  /\ UNCHANGED << taskCh, closeC, closed, store, now, budget, dp >>

\* GetCacheBlockForRead: lruCache.Get, the expire monitor call, the deferred RUnlock
GetGet(t) ==
  /\ th[t].pc = "g_get"
  /\ LET l == th[t]
         r == LruGet(cache, bs, l.key, now)
     IN /\ cache' = r.c
        /\ bs' = r.bs
        /\ th' = [th EXCEPT ![t] =
                    [l EXCEPT !.pc = "done",
                              !.ret = r.value,
                              !.err = IF r.err = Nil THEN Nil ELSE "GetCacheBlockForRead",
                              !.mon = IF r.err = "CacheExpire"
                                      THEN << << l.vol, ActionCacheExpire, ReadSize >> >>
                                      ELSE << >>]]
        /\ locks' = RUnlock(StripeOf[l.key], t)
  /\ UNCHANGED << taskCh, closeC, closed, store, now, budget, dp >>

\* PeekCacheBlock: lock.RLock()
BeginPeek(t, key) ==
  /\ CanBegin(t)
  /\ CanRLock(StripeOf[key])
  /\ locks' = RLock(StripeOf[key], t)
  /\ th' = [th EXCEPT ![t] = [Idle EXCEPT !.pc = "p_peek", !.op = "PeekCacheBlock", !.key = key]]
  /\ budget' = budget - 1
  /\ UNCHANGED << cache, bs, taskCh, closeC, closed, store, now, dp >>

\* the peek that looks the block up with Get
PeekPeek_Get(t) ==
  /\ th[t].pc = "p_peek"
  /\ LET r == LruGet(cache, bs, th[t].key, now)
     IN /\ cache' = r.c
        /\ bs' = r.bs
        /\ th' = [th EXCEPT ![t].pc = "done", ![t].ret = r.value,
                            ![t].err = IF r.value = NoBlock THEN "cache block peek failed" ELSE Nil]
  /\ locks' = RUnlock(StripeOf[th[t].key], t)
  /\ UNCHANGED << taskCh, closeC, closed, store, now, budget, dp >>

\* PeekCacheBlock: lruCache.Peek and the deferred RUnlock
PeekPeek(t) ==
  /\ th[t].pc = "p_peek"
  /\ LET v == LruPeek(cache, th[t].key)
     IN th' = [th EXCEPT ![t].pc = "done", ![t].ret = v,
                         ![t].err = IF v = NoBlock THEN "cache block peek failed" ELSE Nil]
  /\ locks' = RUnlock(StripeOf[th[t].key], t)
  /\ UNCHANGED << cache, bs, taskCh, closeC, closed, store, now, budget, dp >>

\* PeekCacheBlock when lruCache.Peek panics: the deferred RUnlock runs, the
\* deferred function recovers and logs, and the named results are returned as
\* they are, block nil and err nil
PeekPanic(t) ==
  /\ th[t].pc = "p_peek"
  /\ th' = [th EXCEPT ![t].pc = "done", ![t].ret = NoBlock, ![t].err = Nil]
  /\ locks' = RUnlock(StripeOf[th[t].key], t)
  /\ UNCHANGED << cache, bs, taskCh, closeC, closed, store, now, budget, dp >>

\* the read that does not look at the block's closed state
ReadOutcome_Unchecked(b) ==
  IF b.once # "done" THEN "BlockNotReady" ELSE Nil

\* CacheBlock.Read: Closed once the block has been closed or deleted,
\* BlockNotReady until its initialization has completed, the bytes otherwise
ReadOutcome(b) ==
  IF b.log # << >> THEN "Closed"
  ELSE IF b.once # "done" THEN "BlockNotReady"
  ELSE Nil

\* a reader reads from the block that GetCacheBlockForRead returned to it
BlockRead(t) ==
  /\ th[t].pc = "done"
  /\ th[t].op = "GetCacheBlockForRead"
  /\ th[t].ret # NoBlock
  /\ th' = [th EXCEPT ![t].op = "Read", ![t].blk = th[t].ret,
                      ![t].err = ReadOutcome(bs.blocks[th[t].ret])]
  /\ UNCHANGED << cache, bs, locks, taskCh, closeC, closed, store, now, budget, dp >>

\* Status: the LRU's counts beside the configuration (the hit rate, the
\* recent evictions and the used bytes of the file system are left out)
Status ==
  [MaxAlloc |-> MaxAlloc, HasAlloc |-> UsedBytes(bs.blocks, cache.items),
   Total |-> TotalSize, Num |-> Len(cache.items), Capacity |-> Capacity]

(***************************************************************************)
(* The prepare workers (startCachePrepareWorkers).                         *)
(***************************************************************************)
\* the worker that returns only when no task is queued
WorkerClose_Drained(w) ==
  /\ th[w].pc = "w_recv"
  /\ closeC
  /\ taskCh = << >>
  /\ th' = [th EXCEPT ![w].pc = "w_exit"]
  /\ UNCHANGED << cache, bs, locks, taskCh, closeC, closed, store, now, budget, dp >>

\* the select: closeC is closed, the worker returns
WorkerClose(w) ==
  /\ th[w].pc = "w_recv"
  /\ closeC
  /\ th' = [th EXCEPT ![w].pc = "w_exit"]
  /\ UNCHANGED << cache, bs, locks, taskCh, closeC, closed, store, now, budget, dp >>

\* the select: a task is received
WorkerTask(w) ==
  /\ th[w].pc = "w_recv"
  /\ taskCh # << >>
  /\ taskCh' = Tail(taskCh)
  /\ th' = [th EXCEPT ![w] = [Idle EXCEPT !.pc = "w_rlock", !.req = Head(taskCh).request,
                                          !.key = KeyOf(Head(taskCh).request)]]
  /\ UNCHANGED << cache, bs, locks, closeC, closed, store, now, budget, dp >>

\* PeekCacheBlock called by the worker: lock.RLock()
WorkerRLock(w) ==
  /\ th[w].pc = "w_rlock"
  /\ CanRLock(StripeOf[th[w].key])
  /\ locks' = RLock(StripeOf[th[w].key], w)
  /\ th' = [th EXCEPT ![w].pc = "w_peek"]
  /\ UNCHANGED << cache, bs, taskCh, closeC, closed, store, now, budget, dp >>

\* the worker that looks the block up with Get
WorkerPeek_Get(w) ==
  /\ th[w].pc = "w_peek"
  /\ LET r == LruGet(cache, bs, th[w].key, now)
     IN /\ cache' = r.c
        /\ bs' = r.bs
        /\ th' = [th EXCEPT ![w] = IF r.value = NoBlock THEN [Idle EXCEPT !.pc = "w_recv"]
                                   ELSE [@ EXCEPT !.pc = "w_init", !.blk = r.value]]
  /\ locks' = RUnlock(StripeOf[th[w].key], w)
  /\ UNCHANGED << taskCh, closeC, closed, store, now, budget, dp >>

\* PeekCacheBlock called by the worker: Peek and RUnlock; without a block the
\* worker logs and takes the next task
WorkerPeek(w) ==
  /\ th[w].pc = "w_peek"
  /\ LET v == LruPeek(cache, th[w].key)
     IN th' = [th EXCEPT ![w] = IF v = NoBlock THEN [Idle EXCEPT !.pc = "w_recv"]
                                ELSE [@ EXCEPT !.pc = "w_init", !.blk = v]]
  /\ locks' = RUnlock(StripeOf[th[w].key], w)
  /\ UNCHANGED << cache, bs, taskCh, closeC, closed, store, now, budget, dp >>

\* the worker when lruCache.Peek panics inside PeekCacheBlock: err is nil, so
\* the worker calls InitOnce on the nil block
WorkerPeekPanic(w) ==
  /\ th[w].pc = "w_peek"
  /\ th' = [th EXCEPT ![w].pc = "w_nil", ![w].blk = NoBlock]
  /\ locks' = RUnlock(StripeOf[th[w].key], w)
  /\ UNCHANGED << cache, bs, taskCh, closeC, closed, store, now, budget, dp >>

\* CacheBlock.InitOnce, entered: the first call runs the initialization, a call
\* after its end returns, a call during it waits
InitOnceEnter(blocks, b) ==
  IF blocks[b].once = "fresh" THEN [blocks EXCEPT ![b].once = "running"] ELSE blocks

\* the worker runs the initialization itself, whatever the latch says
WorkerInitOnce_NoLatch(w) ==
  /\ th[w].pc = "w_init"
  /\ bs' = [bs EXCEPT !.blocks[th[w].blk].once = "running"]
  /\ th' = [th EXCEPT ![w].pc = "w_read", ![w].keys = th[w].req.Sources]
  /\ UNCHANGED << cache, locks, taskCh, closeC, closed, store, now, budget, dp >>

\* block.InitOnce(c, task.request.Sources)
WorkerInitOnce(w) ==
  /\ th[w].pc = "w_init"
  /\ bs.blocks[th[w].blk].once # "running"
  /\ bs' = [bs EXCEPT !.blocks = InitOnceEnter(@, th[w].blk)]
  /\ th' = [th EXCEPT ![w] =
              IF bs.blocks[th[w].blk].once = "fresh"
              THEN [@ EXCEPT !.pc = "w_read", !.keys = th[w].req.Sources]
              ELSE [Idle EXCEPT !.pc = "w_recv"]]
  /\ UNCHANGED << cache, locks, taskCh, closeC, closed, store, now, budget, dp >>

\* the initialization of a block: readSourceFunc on the next source, which
\* writes the bytes into the block's file; after the last one the latch is set
WorkerRead(w) ==
  /\ th[w].pc = "w_read"
  /\ LET b == th[w].blk
         src == Head(th[w].keys)
         last == Len(th[w].keys) = 1
     IN /\ bs' = [bs EXCEPT !.blocks[b].reads = Append(@, src.ExtentID),
                            !.blocks[b].once = IF last THEN "done" ELSE @]
        /\ th' = [th EXCEPT ![w] = IF last THEN [Idle EXCEPT !.pc = "w_recv"]
                                   ELSE [@ EXCEPT !.keys = Tail(@)]]
  /\ UNCHANGED << cache, locks, taskCh, closeC, closed, store, now, budget, dp >>

(***************************************************************************)
(* EvictVolumeCache, EvictInodeCache, EvictAllCache.                       *)
(***************************************************************************)
\* strings.Split(s, sep)[0]: what comes before the first sep
RECURSIVE SplitFirst(_, _)
SplitFirst(s, sep) ==
  IF s = << >> \/ Head(s) = sep THEN << >>
  ELSE << Head(s) >> \o SplitFirst(Tail(s), sep)

RECURSIVE SelectKeys_Prefix(_, _, _)
\* the keys of ks that begin with prefix
SelectKeys_Prefix(ks, sep, prefix) ==
  IF ks = << >> THEN << >>
  ELSE (IF Len(Head(ks)) >= Len(prefix) /\ SubSeq(Head(ks), 1, Len(prefix)) = prefix
        THEN << Head(ks) >> ELSE << >>)
       \o SelectKeys_Prefix(Tail(ks), sep, prefix)

RECURSIVE SelectKeys(_, _, _)
\* the keys of ks whose part before sep is prefix, in order
SelectKeys(ks, sep, prefix) ==
  IF ks = << >> THEN << >>
  ELSE (IF SplitFirst(Head(ks), sep) = prefix THEN << Head(ks) >> ELSE << >>)
       \o SelectKeys(Tail(ks), sep, prefix)

\* the key snapshot of an eviction, cut to the keys it will evict
EvictBegin(t, op, ks) ==
  /\ th' = [th EXCEPT ![t] = [Idle EXCEPT !.pc = IF ks = << >> THEN "done" ELSE "ev_lock",
                                          !.op = op, !.keys = ks]]
  /\ budget' = budget - 1
  /\ UNCHANGED << cache, bs, locks, taskCh, closeC, closed, store, now, dp >>

\* EvictVolumeCache: keys := c.lruCache.Keys(); vol := strings.Split(k, "/")[0]
BeginEvictVolume(t, evictVol) ==
  /\ CanBegin(t)
  /\ EvictBegin(t, "EvictVolumeCache", SelectKeys(LruKeys(cache), "/", evictVol))

\* EvictInodeCache: prefix := fmt.Sprintf("%v/%v", vol, inode);
\* pre := strings.Split(k, "#")[0]
BeginEvictInode(t, vol, inode) ==
  /\ CanBegin(t)
  /\ EvictBegin(t, "EvictInodeCache",
                SelectKeys(LruKeys(cache), "#", vol \o << "/" >> \o FormatUint(inode)))

\* c.getCacheLock(k).Lock() of the next key
EvictLock(t) ==
  /\ th[t].pc = "ev_lock"
  /\ CanLock(StripeOf[Head(th[t].keys)])
  /\ locks' = Lock(StripeOf[Head(th[t].keys)], t)
  /\ th' = [th EXCEPT ![t].pc = "ev_evict"]
  /\ UNCHANGED << cache, bs, taskCh, closeC, closed, store, now, budget, dp >>

\* if !c.lruCache.Evict(k) { failedKeys = append(failedKeys, k) }, and Unlock
EvictKey(t) ==
  /\ th[t].pc = "ev_evict"
  /\ LET k == Head(th[t].keys)
         r == LruEvict(cache, bs, k)
     IN /\ cache' = r.c
        /\ bs' = r.bs
        /\ locks' = Unlock(StripeOf[k])
        /\ th' = [th EXCEPT ![t].keys = Tail(@),
                            ![t].failed = IF r.ok THEN @ ELSE Append(@, k),
                            ![t].pc = IF Len(th[t].keys) = 1 THEN "done" ELSE "ev_lock"]
  /\ UNCHANGED << taskCh, closeC, closed, store, now, budget, dp >>

\* EvictAllCache
BeginEvictAll(t) ==
  /\ CanBegin(t)
  /\ th' = [th EXCEPT ![t] = [Idle EXCEPT !.pc = "ea_lock", !.op = "EvictAllCache"]]
  /\ budget' = budget - 1
  /\ UNCHANGED << cache, bs, locks, taskCh, closeC, closed, store, now, dp >>

\* the lockAll that returns as soon as one stripe is held
LockAll_One(t, s) ==
  /\ th[t].pc = "ea_lock"
  /\ s \notin th[t].held
  /\ CanLock(s)
  /\ locks' = Lock(s, t)
  /\ th' = [th EXCEPT ![t].held = @ \cup {s}, ![t].pc = "ea_evict"]
  /\ UNCHANGED << cache, bs, taskCh, closeC, closed, store, now, budget, dp >>

\* lockAll: one goroutine per stripe calls Lock; the stripes are taken in any
\* order, and lockAll returns when all are held
LockAll(t, s) ==
  /\ th[t].pc = "ea_lock"
  /\ s \notin th[t].held
  /\ CanLock(s)
  /\ locks' = Lock(s, t)
  /\ th' = [th EXCEPT ![t].held = @ \cup {s},
                      ![t].pc = IF th[t].held \cup {s} = Stripes THEN "ea_evict" ELSE @]
  /\ UNCHANGED << cache, bs, taskCh, closeC, closed, store, now, budget, dp >>

\* c.lruCache.EvictAll()
EvictAll(t) ==
  /\ th[t].pc = "ea_evict"
  /\ LET r == LruEvictAll(cache, bs)
     IN /\ cache' = r.c
        /\ bs' = r.bs
  /\ th' = [th EXCEPT ![t].pc = "ea_unlock"]
  /\ UNCHANGED << locks, taskCh, closeC, closed, store, now, budget, dp >>

\* the deferred unlockAll
UnlockAll(t) ==
  /\ th[t].pc = "ea_unlock"
  /\ locks' = [s \in Stripes |-> [locks[s] EXCEPT !.w = 0]]
  /\ th' = [th EXCEPT ![t].pc = "done", ![t].held = {}]
  /\ UNCHANGED << cache, bs, taskCh, closeC, closed, store, now, budget, dp >>

(***************************************************************************)
(* Stop.                                                                   *)
(***************************************************************************)
Stopping == closed \/ \E t \in Callers : th[t].op = "Stop"

BeginStop(t) ==
  /\ CanBegin(t)
  /\ ~Stopping
  /\ th' = [th EXCEPT ![t] = [Idle EXCEPT !.pc = "st_close", !.op = "Stop"]]
  /\ budget' = budget - 1
  /\ UNCHANGED << cache, bs, locks, taskCh, closeC, closed, store, now, dp >>

\* the Stop that goes on to close the channel without closing the LRU
StopClose_NoClose(t) ==
  /\ th[t].pc = "st_close"
  /\ th' = [th EXCEPT ![t].pc = "st_chan"]
  /\ UNCHANGED << cache, bs, locks, taskCh, closeC, closed, store, now, budget, dp >>

\* err = c.lruCache.Close(); an error is returned
StopClose(t) ==
  /\ th[t].pc = "st_close"
  /\ LET r == LruClose(cache, bs)
     IN /\ cache' = r.c
        /\ bs' = r.bs
  /\ th' = [th EXCEPT ![t].pc = "st_chan"]
  /\ UNCHANGED << locks, taskCh, closeC, closed, store, now, budget, dp >>

\* the Stop that goes on after an error of lruCache.Close
StopCloseFail_GoesOn(t, evicted) ==
  /\ th[t].pc = "st_close"
  /\ LET r == IF evicted THEN LruClose(cache, bs) ELSE [c |-> cache, bs |-> bs]
     IN /\ cache' = r.c
        /\ bs' = r.bs
  /\ th' = [th EXCEPT ![t].pc = "st_chan", ![t].err = "close failed"]
  /\ UNCHANGED << locks, taskCh, closeC, closed, store, now, budget, dp >>

\* err = c.lruCache.Close() returns an error, with the LRU closed and emptied
\* or left as it was: Stop returns the error
StopCloseFail(t, evicted) ==
  /\ th[t].pc = "st_close"
  /\ LET r == IF evicted THEN LruClose(cache, bs) ELSE [c |-> cache, bs |-> bs]
     IN /\ cache' = r.c
        /\ bs' = r.bs
  /\ th' = [th EXCEPT ![t].pc = "done", ![t].err = "close failed"]
  /\ UNCHANGED << locks, taskCh, closeC, closed, store, now, budget, dp >>

\* close(c.closeC); c.closed = true
StopChan(t) ==
  /\ th[t].pc = "st_chan"
  /\ closeC' = TRUE
  /\ closed' = TRUE
  /\ th' = [th EXCEPT ![t].pc = "st_drop"]
  /\ UNCHANGED << cache, bs, locks, taskCh, store, now, budget, dp >>

\* after the sleep: c.dropStore(), the unmount of the root path
StopDrop(t) ==
  /\ th[t].pc = "st_drop"
  /\ store' = [store EXCEPT !.layers = Umount(@)]
  /\ bs' = [bs EXCEPT !.files = {}]
  /\ th' = [th EXCEPT ![t].pc = "done"]
  /\ UNCHANGED << cache, locks, taskCh, closeC, closed, now, budget, dp >>

\* a second passes
Tick ==
  /\ now < MaxTime
  /\ now' = now + 1
  /\ UNCHANGED << cache, bs, locks, taskCh, closeC, closed, store, budget, th, dp >>

\* the steps of a running PrepareCache whose initCacheStore succeeds
CreateSteps(t) ==
  \/ CreateLock(t)
  \/ CreatePeek(t)
  \/ CreateSet(t)
  \/ CreateUnlock(t)
  \/ CreateInit(t)
  \/ SendToPrepareTaskCh(t)

\* the steps of a worker while the engine runs
WorkerSteps(w) ==
  \/ WorkerTask(w)
  \/ WorkerRLock(w)
  \/ WorkerPeek(w)
  \/ WorkerInitOnce(w)
  \/ WorkerRead(w)

EvictSteps(t) == EvictLock(t) \/ EvictKey(t)

EvictAllSteps(t) ==
  \/ BeginEvictAll(t)
  \/ \E s \in Stripes : LockAll(t, s)
  \/ EvictAll(t)
  \/ UnlockAll(t)

StopSteps(t) == BeginStop(t) \/ StopClose(t) \/ StopChan(t) \/ StopDrop(t)

(***************************************************************************)
(* The raft callbacks of the data partition.                               *)
(***************************************************************************)
EngineVars == << cache, bs, locks, taskCh, closeC, closed, store, now, budget, th >>

\* raft may apply another entry of its log
CanCall == dp.pc = "idle" /\ dp.calls < MaxCalls

\* binary.Read(buff, binary.BigEndian, &version)
ReadVersion(command) ==
  IF Len(command) = 0 THEN [version |-> Nil, err |-> "EOF"]
  ELSE [version |-> command[1], err |-> Nil]

\* UnmarshalRaftCmd(command)
UnmarshalRaftCmd(command) ==
  IF command[2] = "bad" THEN [Op |-> Nil, err |-> "unmarshal failed"]
  ELSE [Op |-> command[2], err |-> Nil]

\* dp.ApplyRandomWrite(command, index): the write reaches the extent store, or
\* fails
ApplyRandomWrite(d, index, ok) ==
  IF ok THEN [d |-> [d EXCEPT !.writes = Append(@, index)], resp |-> OpOk, err |-> Nil]
  ELSE [d |-> d, resp |-> OpErr, err |-> "random write failed"]

\* the Apply that hands every random write to ApplyRandomWrite
Apply_NoIndexTest(command, index, ok) ==
  /\ CanCall
  /\ LET v == ReadVersion(command)
         r == IF v.err # Nil THEN [d |-> dp, resp |-> Nil, err |-> v.err]
              ELSE IF v.version # BinaryMarshalMagicVersion THEN
                LET u == UnmarshalRaftCmd(command)
                IN IF u.err # Nil THEN [d |-> dp, resp |-> OpOk, err |-> u.err]
                   ELSE IF u.Op = OpVersionOp
                     THEN [d |-> [dp EXCEPT !.versionOps = @ + 1], resp |-> OpOk, err |-> Nil]
                     ELSE [d |-> dp, resp |-> OpOk, err |-> Nil]
              ELSE ApplyRandomWrite(dp, index, ok)
     IN dp' = [r.d EXCEPT !.calls = @ + 1,
                          !.call = [NoCall EXCEPT !.op = "Apply", !.index = index, !.cmd = command,
                                                  !.resp = r.resp, !.err = r.err]]
  /\ UNCHANGED EngineVars

\* DataPartition.Apply
Apply(command, index, ok) ==
  /\ CanCall
  /\ LET v == ReadVersion(command)
         r == IF v.err # Nil THEN [d |-> dp, resp |-> Nil, err |-> v.err]
              ELSE IF v.version # BinaryMarshalMagicVersion THEN
                LET u == UnmarshalRaftCmd(command)
                IN IF u.err # Nil THEN [d |-> dp, resp |-> OpOk, err |-> u.err]
                   ELSE IF u.Op = OpVersionOp
                     THEN [d |-> [dp EXCEPT !.versionOps = @ + 1], resp |-> OpOk, err |-> Nil]
                     ELSE [d |-> dp, resp |-> OpOk, err |-> Nil]
              ELSE IF index > dp.metaAppliedID THEN ApplyRandomWrite(dp, index, ok)
              ELSE [d |-> dp, resp |-> OpOk, err |-> Nil]
     IN dp' = [r.d EXCEPT !.calls = @ + 1,
                          !.call = [NoCall EXCEPT !.op = "Apply", !.index = index, !.cmd = command,
                                                  !.resp = r.resp, !.err = r.err]]
  /\ UNCHANGED EngineVars

\* uploadApplyID(applyID)
uploadApplyID(d, applyID) ==
  IF applyID = 0 THEN d
  ELSE [d EXCEPT !.appliedID = applyID, !.storeApplyId = applyID]

\* the body of ApplyMemberChange: [d, err]; m is what addRaftNode or
\* removeRaftNode returns, metaOk whether PersistMetadata succeeds
MemberChange(d, change, m, metaOk) ==
  IF d.storeClosed THEN [d |-> d, err |-> "already stop"]
  ELSE LET member == change.Type \in {"ConfAddNode", "ConfRemoveNode"}
           r == IF ~member THEN [isUpdated |-> FALSE, err |-> Nil]
                ELSE IF change.Context = "bad" THEN [isUpdated |-> FALSE, err |-> "unmarshal failed"]
                ELSE m
       IN IF r.err # Nil THEN [d |-> d, err |-> r.err]
          ELSE IF ~r.isUpdated THEN [d |-> d, err |-> Nil]
          ELSE IF metaOk
            THEN [d |-> [d EXCEPT !.createType = "normal", !.metaPersists = @ + 1], err |-> Nil]
            ELSE [d |-> [d EXCEPT !.createType = "normal"], err |-> "persist metadata failed"]

\* the ApplyMemberChange that uploads the apply ID whatever the error
AmcBody_UploadAlways(change, index, m, metaOk) ==
  /\ CanCall
  /\ LET r == MemberChange(dp, change, m, metaOk)
         c == [NoCall EXCEPT !.op = "ApplyMemberChange", !.index = index, !.err = r.err,
                             !.change = change, !.m = m, !.metaOk = metaOk,
                             !.closed = dp.storeClosed]
     IN dp' = [uploadApplyID(r.d, index) EXCEPT !.calls = @ + 1, !.call = c,
                 !.pc = IF r.err = Nil THEN "amc_send" ELSE "idle"]
  /\ UNCHANGED EngineVars

\* ApplyMemberChange up to the send on PersistApplyIdChan: the body, and the
\* deferred function, which uploads the apply ID when err is nil and wraps
\* the error and returns otherwise
AmcBody(change, index, m, metaOk) ==
  /\ CanCall
  /\ LET r == MemberChange(dp, change, m, metaOk)
         c == [NoCall EXCEPT !.op = "ApplyMemberChange", !.index = index, !.err = r.err,
                             !.change = change, !.m = m, !.metaOk = metaOk,
                             !.closed = dp.storeClosed]
     IN dp' = IF r.err = Nil
              THEN [uploadApplyID(r.d, index) EXCEPT !.calls = @ + 1, !.call = c, !.pc = "amc_send"]
              ELSE [r.d EXCEPT !.calls = @ + 1, !.call = c]
  /\ UNCHANGED EngineVars

\* dp.PersistApplyIdChan <- req: the receiver takes the request
AmcSend ==
  /\ dp.pc = "amc_send"
  /\ dp.persist = "none"
  /\ dp' = [dp EXCEPT !.pc = "amc_wait", !.persist = "taken", !.call.sent = TRUE]
  /\ UNCHANGED EngineVars

\* the receiver of PersistApplyIdChan persists the applied ID and signals
\* req.done
PersistApplyId ==
  /\ dp.persist = "taken"
  /\ dp' = [dp EXCEPT !.persist = "done", !.persisted = dp.appliedID]
  /\ UNCHANGED EngineVars

\* <-req.done, and the return of ApplyMemberChange
AmcReturn ==
  /\ dp.pc = "amc_wait"
  /\ dp.persist = "done"
  /\ dp' = [dp EXCEPT !.pc = "idle", !.persist = "none", !.call.done = TRUE]
  /\ UNCHANGED EngineVars

\* the partition is stopped: its extent store is closed
StoreClose ==
  /\ ~dp.storeClosed
  /\ dp.pc = "idle"
  /\ dp' = [dp EXCEPT !.storeClosed = TRUE]
  /\ UNCHANGED EngineVars

\* HandleLeaderChange(leader)
HandleLeaderChange(leader) ==
  /\ dp.notified < MaxCalls
  /\ dp' = [dp EXCEPT !.isRaftLeader = IF NodeID = leader THEN TRUE ELSE @,
                      !.leader = leader, !.notified = @ + 1]
  /\ UNCHANGED EngineVars

(***************************************************************************)
(* The engine with every operation and every request.                      *)
(***************************************************************************)
Next ==
  \/ \E t \in Callers, req \in Requests : BeginCreate(t, req)
  \/ \E t \in Callers : CreateSteps(t) \/ CreateInitFail(t) \/ CreateDelete(t)
  \/ \E t \in Callers, req \in Requests : BeginGet(t, req)
  \/ \E t \in Callers : GetGet(t)
  \/ \E t \in Callers, key \in Keys : BeginPeek(t, key)
  \/ \E t \in Callers : PeekPeek(t)
  \/ \E w \in Workers : WorkerSteps(w) \/ WorkerClose(w)
  \/ \E t \in Callers, vol \in Volumes : BeginEvictVolume(t, vol)
  \/ \E t \in Callers, vol \in Volumes, inode \in Inodes : BeginEvictInode(t, vol, inode)
  \/ \E t \in Callers : EvictSteps(t) \/ EvictAllSteps(t) \/ StopSteps(t)
  \/ Tick

Spec == Init /\ [][Next]_vars

(***************************************************************************)
(* Admission: concurrent PrepareCache calls on one key (with two source    *)
(* lists) and on a second key, a failing initCacheStore, and the workers.  *)
(***************************************************************************)
NextAdmit ==
  \/ \E t \in Callers, req \in {ReqA1, ReqA1Wide, ReqA12} : BeginCreate(t, req)
  \/ \E t \in Callers : CreateSteps(t) \/ CreateInitFail(t) \/ CreateDelete(t)
  \/ \E w \in Workers : WorkerSteps(w)

SpecAdmit == Init /\ [][NextAdmit]_vars

(***************************************************************************)
(* The engine's operations on the LRU: admissions that evict by count and  *)
(* by bytes and that fail, reads and peeks while the entries expire, the   *)
(* evictions, and Stop.                                                    *)
(***************************************************************************)
NextEngine ==
  \/ \E t \in Callers, req \in Requests : BeginCreate(t, req)
  \/ \E t \in Callers : CreateSteps(t) \/ CreateInitFail(t) \/ CreateDelete(t)
  \/ \E t \in Callers, req \in {ReqA1, ReqA12, ReqB1} : BeginGet(t, req)
  \/ \E t \in Callers : GetGet(t)
  \/ \E t \in Callers, key \in Keys : BeginPeek(t, key)
  \/ \E t \in Callers : PeekPeek(t)
  \/ \E t \in Callers, vol \in Volumes : BeginEvictVolume(t, vol)
  \/ \E t \in Callers, vol \in Volumes, inode \in Inodes : BeginEvictInode(t, vol, inode)
  \/ \E t \in Callers : EvictSteps(t) \/ EvictAllSteps(t) \/ StopSteps(t)
  \/ Tick

SpecEngine == Init /\ [][NextEngine]_vars

(***************************************************************************)
(* Reads and peeks of admitted, rejected and expiring blocks.              *)
(***************************************************************************)
NextRead ==
  \/ \E t \in Callers, req \in {ReqA1, ReqA12, ReqBig} : BeginCreate(t, req)
  \/ \E t \in Callers : CreateSteps(t) \/ CreateDelete(t)
  \/ \E t \in Callers, req \in {ReqA1, ReqA12, ReqB1} : BeginGet(t, req)
  \/ \E t \in Callers : GetGet(t)
  \/ \E t \in Callers, key \in Keys : BeginPeek(t, key)
  \/ \E t \in Callers : PeekPeek(t)
  \/ Tick

SpecRead == Init /\ [][NextRead]_vars

(***************************************************************************)
(* The task channel filled up: one caller posts while no worker receives   *)
(* (the workers run only once Start has been called).                      *)
(***************************************************************************)
InitCh ==
  /\ cache = [items |-> << >>, hits |-> 0, misses |-> 0, closed |-> FALSE]
  /\ bs = [blocks |-> << >>, files |-> {}]
  /\ locks = [s \in Stripes |-> [w |-> 0, r |-> {}]]
  /\ taskCh = << >>
  /\ closeC = FALSE
  /\ closed = FALSE
  /\ store = StoreOfEngine
  /\ now = 0
  /\ budget = PrepareTaskChCap + 2
  /\ th = [t \in Threads |-> IF t \in Callers THEN Idle ELSE [Idle EXCEPT !.pc = "w_recv"]]
  /\ dp = NewDataPartition(0, 0)

NextCh ==
  \/ \E req \in {ReqA1, ReqBig} : BeginCreate(1, req)
  \/ CreateSteps(1)

SpecCh == InitCh /\ [][NextCh]_vars

(***************************************************************************)
(* Startup: calls of NewCacheEngine on one root path, found in any of the  *)
(* states a path can be in, and a caller of the engine that is live.       *)
(***************************************************************************)
\* a tmpfs mount left by an earlier process has that process's size
StaleSize == TotalSize + 1

\* the states the root path may be found in
RootStates ==
  {<< >>} \cup {<< Dir(n) >> : n \in SUBSET {InitFileName, Foreign}}
    \cup {<< Layer("other", 0, 0, n), Dir({}) >> : n \in SUBSET {InitFileName}}
    \cup {<< Layer("tmpfs", 0, StaleSize, n), Dir({}) >> : n \in SUBSET {InitFileName, Foreign}}

InitMount ==
  /\ cache = [items |-> << >>, hits |-> 0, misses |-> 0, closed |-> FALSE]
  /\ bs = [blocks |-> << >>, files |-> {}]
  /\ locks = [s \in Stripes |-> [w |-> 0, r |-> {}]]
  /\ taskCh = << >>
  /\ closeC = FALSE
  /\ closed = FALSE
  /\ \E l \in RootStates : store = [layers |-> l, eng |-> [e \in Engines |-> NotBegun]]
  /\ now = 0
  /\ budget = MaxOps
  /\ th = [t \in Threads |-> IF t \in Callers THEN Idle ELSE [Idle EXCEPT !.pc = "w_recv"]]
  /\ dp = NewDataPartition(0, 0)

\* an engine has been constructed
SomeLive == \E e \in Engines : store.eng[e].pc = "live"

NextMount ==
  \/ \E e \in Engines : StartSteps(e)
  \/ SomeLive /\ BeginCreate(1, ReqA1)
  \/ SomeLive /\ CreateSteps(1)

SpecMount == InitMount /\ [][NextMount]_vars

(***************************************************************************)
(* Shutdown: Stop beside prepare calls and the prepare workers.            *)
(***************************************************************************)
NextStop ==
  \/ \E t \in Callers, req \in {ReqA1, ReqA12} : BeginCreate(t, req)
  \/ \E t \in Callers : CreateSteps(t)
  \/ \E w \in Workers : WorkerSteps(w) \/ WorkerClose(w)
  \/ \E t \in Callers : StopSteps(t)

SpecStop == Init /\ [][NextStop]_vars

\* the goroutines are scheduled: a worker or a caller that can take its next
\* step takes it; the select of a worker chooses at random among its ready
\* cases, so a worker that finds closeC closed again and again returns
SpecStopFair ==
  /\ SpecStop
  /\ \A w \in Workers : WF_vars(WorkerSteps(w)) /\ SF_vars(WorkerClose(w))
  /\ \A t \in Callers : WF_vars(CreateSteps(t)) /\ WF_vars(StopSteps(t))

(***************************************************************************)
(* Readers beside EvictAllCache: a block is prepared and initialised, read *)
(* by the callers that got it, and evicted with all the others.            *)
(***************************************************************************)
NextReaders ==
  \/ \E t \in Callers : BeginCreate(t, ReqA1)
  \/ \E t \in Callers : CreateSteps(t)
  \/ \E w \in Workers : WorkerSteps(w)
  \/ \E t \in Callers : BeginGet(t, ReqA1)
  \/ \E t \in Callers : GetGet(t)
  \/ \E t \in Callers : BlockRead(t)
  \/ \E t \in Callers : EvictAllSteps(t)

SpecReaders == Init /\ [][NextReaders]_vars

(***************************************************************************)
(* EvictAllCache beside every operation that takes a stripe lock.          *)
(***************************************************************************)
NextQuiesce ==
  \/ \E t \in Callers, req \in {ReqA1, ReqB1} : BeginCreate(t, req)
  \/ \E t \in Callers : CreateSteps(t)
  \/ \E w \in Workers : WorkerSteps(w)
  \/ \E t \in Callers : BeginGet(t, ReqA1)
  \/ \E t \in Callers : GetGet(t)
  \/ \E t \in Callers : BeginPeek(t, KeyOf(ReqB1))
  \/ \E t \in Callers : PeekPeek(t)
  \/ \E t \in Callers : BeginEvictVolume(t, VolA)
  \/ \E t \in Callers : EvictSteps(t)
  \/ \E t \in Callers : EvictAllSteps(t)

SpecQuiesce == Init /\ [][NextQuiesce]_vars

(***************************************************************************)
(* PeekCacheBlock, by the callers and by the workers, with an LRU whose     *)
(* Peek may panic.                                                         *)
(***************************************************************************)
NextPanic ==
  \/ \E t \in Callers : BeginCreate(t, ReqA1)
  \/ \E t \in Callers : CreateSteps(t)
  \/ \E t \in Callers, key \in {KeyOf(ReqA1), KeyOf(ReqB1)} : BeginPeek(t, key)
  \/ \E t \in Callers : PeekPeek(t) \/ PeekPanic(t)
  \/ \E w \in Workers : WorkerSteps(w) \/ WorkerPeekPanic(w)

SpecPanic == Init /\ [][NextPanic]_vars

(***************************************************************************)
(* EvictAllCache calls that run together, beside an admission.             *)
(***************************************************************************)
NextEvictAll ==
  \/ \E t \in Callers : BeginCreate(t, ReqA1)
  \/ \E t \in Callers : CreateSteps(t)
  \/ \E t \in Callers : EvictAllSteps(t)

SpecEvictAll == Init /\ [][NextEvictAll]_vars

\* the goroutines are scheduled: a caller inside an operation takes its next
\* step when it can (a goroutine of lockAll blocked in Lock gets the stripe
\* when it stays free)
SpecEvictAllFair ==
  /\ SpecEvictAll
  /\ \A t \in Callers :
       /\ WF_vars(CreateSteps(t))
       /\ WF_vars((\E s \in Stripes : LockAll(t, s)) \/ EvictAll(t) \/ UnlockAll(t))

(***************************************************************************)
(* Stop with an LRU whose Close may fail, beside a prepare call and the     *)
(* workers.                                                                *)
(***************************************************************************)
NextStopFail ==
  \/ \E t \in Callers : BeginCreate(t, ReqA1)
  \/ \E t \in Callers : CreateSteps(t)
  \/ \E w \in Workers : WorkerSteps(w) \/ WorkerClose(w)
  \/ \E t \in Callers : StopSteps(t)
  \/ \E t \in Callers, evicted \in BOOLEAN : StopCloseFail(t, evicted)

SpecStopFail == Init /\ [][NextStopFail]_vars

(***************************************************************************)
(* The data partition under the calls of the raft library: log entries     *)
(* applied one after the other and leader changes; member changes with the *)
(* receiver of the persist requests and the stop of the partition.         *)
(***************************************************************************)
InitFsm ==
  /\ cache = [items |-> << >>, hits |-> 0, misses |-> 0, closed |-> FALSE]
  /\ bs = [blocks |-> << >>, files |-> {}]
  /\ locks = [s \in Stripes |-> [w |-> 0, r |-> {}]]
  /\ taskCh = << >>
  /\ closeC = FALSE
  /\ closed = FALSE
  /\ store = StoreOfEngine
  /\ now = 0
  /\ budget = MaxOps
  /\ th = [t \in Threads |-> IF t \in Callers THEN Idle ELSE [Idle EXCEPT !.pc = "w_recv"]]
  /\ \E meta \in 0 .. MaxIndex : \E applied \in meta .. MaxIndex :
       dp = NewDataPartition(meta, applied)

\* raft applies the entries of its log and notifies the leader changes
NextApply ==
  \/ \E command \in Commands, index \in Indexes, ok \in BOOLEAN : Apply(command, index, ok)
  \/ \E leader \in Nodes : HandleLeaderChange(leader)

SpecApply == InitFsm /\ [][NextApply]_vars

\* raft applies member changes while the partition may be stopped
NextMember ==
  \/ \E change \in ConfChanges, index \in Indexes, m \in MemberResults, metaOk \in BOOLEAN :
       AmcBody(change, index, m, metaOk)
  \/ AmcSend
  \/ PersistApplyId
  \/ AmcReturn
  \/ StoreClose

SpecMember == InitFsm /\ [][NextMember]_vars

(***************************************************************************)
(* C35.  An Apply of a random-write command (its version is the magic      *)
(* version) whose raft index is not greater than metaAppliedID writes      *)
(* nothing to the extent store and returns OpOk with no error; the extent  *)
(* store is written only by an Apply of a random-write command whose index *)
(* is greater than metaAppliedID.                                          *)
(***************************************************************************)
IsRandomWrite(command) == Len(command) > 0 /\ command[1] = BinaryMarshalMagicVersion

\* this step is a call of Apply
ApplyCalled == dp'.calls = dp.calls + 1 /\ dp'.call.op = "Apply"

C35_ReplaySkipped ==
  [][ /\ ( ApplyCalled /\ IsRandomWrite(dp'.call.cmd) /\ dp'.call.index <= dp.metaAppliedID )
           => ( dp'.writes = dp.writes /\ dp'.call.resp = OpOk /\ dp'.call.err = Nil )
      /\ ( dp'.writes # dp.writes )
           => ( ApplyCalled /\ IsRandomWrite(dp'.call.cmd) /\ dp'.call.index > dp.metaAppliedID )
    ]_vars

\* a log entry was replayed after a later one had been written
C35_Witness ==
  /\ dp.pc = "idle"
  /\ dp.call.op = "Apply"
  /\ IsRandomWrite(dp.call.cmd)
  /\ dp.call.index <= dp.metaAppliedID
  /\ dp.call.resp = OpOk
  /\ dp.call.err = Nil
  /\ Len(dp.writes) > 0

(***************************************************************************)
(* C36.  ApplyMemberChange sets dp.appliedID and extentStore.ApplyId to    *)
(* the index of the change and returns only after its persist request was  *)
(* completed, exactly when the change finished without error; when the     *)
(* change fails (the partition is stopped, the context does not decode,    *)
(* the add or remove fails, the metadata is not persisted) both applied    *)
(* IDs stay as they were and no persist request is sent.                   *)
(***************************************************************************)
\* this step is a call of ApplyMemberChange
MemberChangeCalled == dp'.calls = dp.calls + 1 /\ dp'.call.op = "ApplyMemberChange"

\* the call fails
ChangeFails(c) ==
  \/ c.closed
  \/ /\ c.change.Type \in {"ConfAddNode", "ConfRemoveNode"}
     /\ \/ c.change.Context = "bad"
        \/ c.m.err # Nil
        \/ c.m.isUpdated /\ ~c.metaOk

C36_AppliedIdOnSuccess ==
  [][ /\ MemberChangeCalled =>
           /\ dp'.call.closed = dp.storeClosed
           /\ IF ChangeFails(dp'.call)
              THEN /\ dp'.call.err # Nil
                   /\ dp'.appliedID = dp.appliedID
                   /\ dp'.storeApplyId = dp.storeApplyId
                   /\ dp'.pc = "idle"
                   /\ ~dp'.call.sent
                   /\ dp'.persist = dp.persist
              ELSE /\ dp'.call.err = Nil
                   /\ dp'.appliedID = dp'.call.index
                   /\ dp'.storeApplyId = dp'.call.index
                   /\ dp'.pc # "idle"
      /\ ( dp.pc # "idle" /\ dp'.pc = "idle" ) =>
           /\ dp.call.op = "ApplyMemberChange"
           /\ dp.call.err = Nil
           /\ dp.call.sent
           /\ dp.persist = "done"
           /\ dp.persisted = dp.call.index
           /\ dp'.appliedID = dp.call.index
           /\ dp'.storeApplyId = dp.call.index
    ]_vars

\* a member change has returned without error after its request was persisted
C36_Witness ==
  /\ dp.pc = "idle"
  /\ dp.call.op = "ApplyMemberChange"
  /\ dp.call.err = Nil
  /\ dp.call.done
  /\ dp.appliedID = dp.call.index
  /\ dp.persisted = dp.call.index

(***************************************************************************)
(* C37.  After any sequence of HandleLeaderChange notifications,           *)
(* isRaftLeader is true exactly when the leader of the last notification   *)
(* is this node; it is false again once another node is the leader.        *)
(***************************************************************************)
C37_LeaderFlagFollows ==
  dp.notified > 0 => ( dp.isRaftLeader <=> dp.leader = NodeID )

(***************************************************************************)
(* Admission of a key happens once.                                        *)
(***************************************************************************)
\* the positions of the LRU entries of key k
EntriesOf(k) == {i \in 1 .. Len(cache.items) : cache.items[i].key = k}

\* the block that entry holds
InLru(b) == \E i \in 1 .. Len(cache.items) : cache.items[i].value = b

\* a destructor has run on block b
Destroyed(b) == bs.blocks[b].log # << >>

\* CreateBlock has returned a block to caller t (PrepareCache is about to post
\* the task, or has returned)
Returned(t) ==
  /\ th[t].op = "PrepareCache"
  /\ th[t].pc \in {"pc_send", "done"}
  /\ th[t].err = Nil
  /\ th[t].blk # NoBlock

\* C1: for every key, whatever calls of CreateBlock/PrepareCache run together:
\* the LRU holds at most one entry of the key; a call that has constructed a
\* block and is about to insert it finds no entry of the key (it never
\* replaces the block of another call); at most one block of the key is
\* inserted and not destroyed; and every call that has returned a block which
\* no eviction or failure has destroyed since returned the block the LRU
\* holds for the key, so all such calls returned the same block.
C1_AdmissionOnce ==
  \A k \in Keys :
    /\ Cardinality(EntriesOf(k)) <= 1
    /\ \A t \in Callers : th[t].pc = "cc_set" /\ th[t].key = k => EntriesOf(k) = {}
    /\ Cardinality({b \in 1 .. Len(bs.blocks) :
                      /\ bs.blocks[b].key = k
                      /\ bs.blocks[b].inserted
                      /\ ~Destroyed(b)}) <= 1
    /\ \A t \in Callers :
         Returned(t) /\ th[t].key = k /\ ~Destroyed(th[t].blk)
           => \E i \in EntriesOf(k) : cache.items[i].value = th[t].blk

\* two calls with different source lists have returned the one block of their
\* key, the only block constructed, and it is in the LRU
C1_Witness ==
  \E t1, t2 \in Callers :
    /\ t1 # t2
    /\ Returned(t1) /\ Returned(t2)
    /\ th[t1].req # th[t2].req
    /\ th[t1].blk = th[t2].blk
    /\ InLru(th[t1].blk)
    /\ Len(bs.blocks) = 1
    /\ budget = MaxOps - 2

(***************************************************************************)
(* A source is read once into a block.                                     *)
(***************************************************************************)
ExtentIDs == UNION {{r.Sources[i].ExtentID : i \in 1 .. Len(r.Sources)} : r \in Requests}

\* the reads of extent e into block b
ReadsOf(b, e) == {i \in 1 .. Len(bs.blocks[b].reads) : bs.blocks[b].reads[i] = e}

BlocksOf(k) == {b \in 1 .. Len(bs.blocks) : bs.blocks[b].key = k}

\* C2: however many prepare tasks of a key the workers process, a source is
\* read at most once into a block; and over all the blocks of a key it is read
\* at most once more than blocks of the key have been evicted (a block that
\* was evicted and created again is read again).
C2_ReadOnce ==
  /\ \A b \in 1 .. Len(bs.blocks) : \A e \in ExtentIDs : Cardinality(ReadsOf(b, e)) <= 1
  /\ \A k \in Keys : \A e \in ExtentIDs :
       Cardinality(UNION {{<< b, i >> : i \in ReadsOf(b, e)} : b \in BlocksOf(k)})
         <= 1 + Cardinality({b \in BlocksOf(k) : Destroyed(b)})

\* two tasks of the same request are processed together: one worker is reading
\* the sources into the block, the other one calls InitOnce on the same block
C2_Witness ==
  \E w1, w2 \in Workers :
    /\ th[w1].pc = "w_read" /\ th[w2].pc = "w_init"
    /\ th[w1].blk = th[w2].blk
    /\ th[w1].req = th[w2].req
    /\ bs.blocks[th[w1].blk].reads # << >>

(***************************************************************************)
(* The caps of the LRU and the destructors of its entries.                 *)
(***************************************************************************)
\* a caller is back from Set with evicted bytes
Evicted(t) == th[t].pc = "cc_unlock" /\ th[t].err = Nil /\ th[t].n > 0

\* C3: in every state, so after every operation in any interleaving, the
\* number of LRU entries that Status reports is at most the capacity.
C3_CountCap == Status.Num <= Status.Capacity

\* a Set has evicted for the count alone: the LRU is full and the evicted bytes
\* would have fitted
C3_Witness ==
  \E t \in Callers :
    /\ Evicted(t)
    /\ Status.Num = Capacity
    /\ Status.HasAlloc + th[t].n <= MaxAlloc

\* C4: in every state the allocated bytes that Status reports are at most
\* MaxAlloc.
C4_ByteCap == Status.HasAlloc <= Status.MaxAlloc

\* a Set has evicted for the bytes alone: with the evicted entry the LRU was
\* within its capacity
C4_Witness ==
  \E t \in Callers :
    /\ Evicted(t)
    /\ Status.Num < Capacity
    /\ Status.HasAlloc + th[t].n > MaxAlloc

\* C5: a block that was inserted and is no longer in the LRU has had Close and
\* then Delete, each once; a block in the LRU, or never inserted, has had none.
C5_CloseThenDelete ==
  \A b \in 1 .. Len(bs.blocks) :
    /\ bs.blocks[b].log \in {<< >>, << "Close", "Delete" >>}
    /\ bs.blocks[b].inserted /\ ~InLru(b) => bs.blocks[b].log = << "Close", "Delete" >>
    /\ InLru(b) \/ ~bs.blocks[b].inserted => bs.blocks[b].log = << >>

\* the LRU is closed after Stop, one block was destroyed by an eviction of Set
\* and another one later
C5_Witness ==
  /\ cache.closed
  /\ \E t \in Callers : th[t].mon # << >> /\ th[t].mon[1][2] = ActionCacheEvict
  /\ Cardinality({b \in 1 .. Len(bs.blocks) : Destroyed(b)}) >= 2

(***************************************************************************)
(* Startup.                                                                *)
(***************************************************************************)
EngineLive(e) == store.eng[e].pc = "live"

\* the mount at the root path is the one the call e made, with its sentinel
OwnsMount(e) ==
  /\ IsMountPoint(store.layers)
  /\ Head(store.layers) = Layer("tmpfs", e, TotalSize, {InitFileName})

\* C11: while the engine of one call of NewCacheEngine is live, no other call on
\* the same path has succeeded, the mount at the path is the live engine's own
\* with its sentinel, and the file of every initialised block that has not been
\* destroyed is still under the path.
C11_SecondStartFails ==
  \A e \in Engines :
    EngineLive(e) => /\ \A f \in Engines \ {e} : ~EngineLive(f)
                /\ OwnsMount(e)
                /\ \A b \in 1 .. Len(bs.blocks) :
                     bs.blocks[b].store = "ok" /\ ~Destroyed(b)
                       => bs.blocks[b].key \in bs.files

\* the operations the call e has performed on the path
Did(e, what) == \E i \in 1 .. Len(store.eng[e].log) : store.eng[e].log[i] = what

\* the call e performed a before b
DidBefore(e, a, b) ==
  \E i, j \in 1 .. Len(store.eng[e].log) :
    i < j /\ store.eng[e].log[i] = a /\ store.eng[e].log[j] = b

\* the three situations in which a startup may mount: the path was absent and
\* the call created it; the call found a tmpfs mount with the sentinel and
\* unmounted it first; the call found the path unmounted and empty
MaySetUp(e) ==
  \/ DidBefore(e, "mkdir", "mount")
  \/ {"mounted", "init"} \subseteq store.eng[e].saw /\ DidBefore(e, "umount", "mount")
  \/ {"unmounted", "empty"} \subseteq store.eng[e].saw

\* the path is a tmpfs mount of the configured size that holds the sentinel
SetUp(layers) ==
  /\ IsMountPoint(layers)
  /\ IsTmpfs(layers)
  /\ Head(layers).size = TotalSize
  /\ initFileExists(layers)

\* C12: a call of NewCacheEngine mounts, and writes the sentinel, only in one of
\* the three situations, and when it returns its engine the root path is a
\* tmpfs mount of the configured size with the sentinel in it.
C12_MountOnlyWhen ==
  [][\A e \in Engines :
       /\ Did(e, "mount")' \/ Did(e, "sentinel")' => MaySetUp(e)'
       /\ ~EngineLive(e) /\ EngineLive(e)' => SetUp(store.layers)']_vars

\* C13: a call that finds the path mounted by something other than tmpfs fails,
\* a call that finds the path unmounted with entries in it fails, and a call
\* that has failed for one of these two reasons has performed no mount, no
\* unmount and no write of the sentinel.
C13_FailUntouched ==
  [][\A e \in Engines :
       /\ store.eng[e].pc = "istmpfs" /\ store.eng[e].pc' # "istmpfs"
          /\ store.eng[e].mounted /\ ~IsTmpfs(store.layers)
            => store.eng[e].pc' = "failed"
               /\ store.eng[e].err' = "already mounted by another device"
       /\ store.eng[e].pc = "readdir" /\ store.eng[e].pc' # "readdir"
          /\ ~store.eng[e].mounted /\ ReadDir(store.layers, bs.files) # {}
            => store.eng[e].pc' = "failed" /\ store.eng[e].err' = "not empty dir"
       /\ store.eng[e].pc' = "failed"
          /\ store.eng[e].err' \in {"already mounted by another device", "not empty dir"}
            => /\ \A w \in {"mount", "umount", "sentinel"} : ~Did(e, w)'
               /\ store.eng[e].pc = "failed" \/ store.layers' = store.layers]_vars

\* a call has failed on a path mounted by something else, the mount still there
C13_Witness ==
  \E e \in Engines :
    /\ store.eng[e].pc = "failed"
    /\ store.eng[e].err = "already mounted by another device"
    /\ store.eng[e].log = << >>
    /\ IsMountPoint(store.layers) /\ Head(store.layers).kind = "other"

(***************************************************************************)
(* Stop.                                                                   *)
(***************************************************************************)
\* every block that Set has put into the LRU has had its destructors run
AllDestroyed == \A b \in 1 .. Len(bs.blocks) : bs.blocks[b].inserted => Destroyed(b)

\* C14: the step of Stop that closes the close channel finds the LRU closed and
\* the destructors of every block that was in it run; the step that unmounts
\* the root path finds the LRU closed and the close channel closed.
C14_StopOrder ==
  [][/\ ~closeC /\ closeC' => cache.closed /\ AllDestroyed
     /\ store.layers' # store.layers => cache.closed /\ closeC /\ closed]_vars

\* Stop has returned: the path is unmounted, the channel is closed, and blocks
\* that were live when it began have been closed and deleted
C14_Witness ==
  \E t \in Callers :
    /\ th[t].op = "Stop" /\ th[t].pc = "done"
    /\ ~IsMountPoint(store.layers)
    /\ closeC
    /\ \E b \in 1 .. Len(bs.blocks) : bs.blocks[b].log = << "Close", "Delete" >>

\* C15: once Stop has returned without an error the root path is unmounted,
\* no block file is under it, and every block that was admitted to the LRU has
\* had its destructors run, however the prepare calls and the workers ran.
C15_StopClean ==
  \A t \in Callers :
    th[t].op = "Stop" /\ th[t].pc = "done" /\ th[t].err = Nil
      => /\ ~IsMountPoint(store.layers)
         /\ bs.files = {}
         /\ AllDestroyed

\* C16: once the close channel is closed every worker eventually returns; a
\* worker at its select can return as soon as the channel is closed, whatever
\* the task channel holds; its return takes no task from the task channel, and
\* a worker that has returned takes none later.
C16_WorkersExit ==
  /\ closeC ~> (\A w \in Workers : th[w].pc = "w_exit")
  /\ [](\A w \in Workers : closeC /\ th[w].pc = "w_recv" => ENABLED WorkerClose(w))
  /\ [][\A w \in Workers :
          /\ th[w].pc = "w_recv" /\ th'[w].pc = "w_exit" => closeC /\ taskCh' = taskCh
          /\ th[w].pc = "w_exit" => th'[w].pc = "w_exit"]_vars

\* every worker has returned and a task is still queued
C16_Witness ==
  /\ closeC
  /\ \A w \in Workers : th[w].pc = "w_exit"
  /\ taskCh # << >>

(***************************************************************************)
(* EvictAllCache.                                                          *)
(***************************************************************************)
\* the caller t reads from the block it holds
Reads(t) == th[t].op = "GetCacheBlockForRead" /\ th'[t].op = "Read"

InStripeSection == {"cc_peek", "cc_set", "cc_unlock", "g_get", "p_peek", "w_peek", "ev_evict"}

\* C18: while EvictAllCache is at its call of EvictAll it holds the write lock of
\* each of the 4 stripes, no stripe has a reader, and no other caller or worker
\* is inside a stripe-locked section.
C18_EvictAllQuiesces ==
  \A t \in Callers :
    th[t].pc = "ea_evict"
      => /\ \A s \in Stripes : locks[s].w = t /\ locks[s].r = {}
         /\ \A u \in Threads \ {t} : th[u].pc \notin InStripeSection

\* EvictAllCache is at its call of EvictAll over a non-empty LRU while an
\* admission waits for its stripe and a worker waits to peek
C18_Witness ==
  \E t, u \in Callers : \E w \in Workers :
    /\ th[t].pc = "ea_evict"
    /\ cache.items # << >>
    /\ th[u].pc = "cc_lock"
    /\ th[w].pc = "w_rlock"

(***************************************************************************)
(* EvictVolumeCache and EvictInodeCache.                                   *)
(***************************************************************************)
Range(q) == {q[i] : i \in 1 .. Len(q)}

\* the keys in the LRU
PresentKeys == {cache.items[i].key : i \in 1 .. Len(cache.items)}

\* the keys of the requests of a volume, and of an inode of a volume
KeysOfVolume(v) == {KeyOf(r) : r \in {q \in Requests : q.Volume = v}}
KeysOfInode(v, i) == {KeyOf(r) : r \in {q \in Requests : q.Volume = v /\ q.Inode = i}}

\* the keys the call will evict are exactly ks, each once
Selects(t, ks) == Range(th'[t].keys) = ks /\ Len(th'[t].keys) = Cardinality(ks)

\* C19: EvictVolumeCache(v) selects from its key snapshot exactly the keys of
\* volume v and EvictInodeCache(v, i) exactly the keys of inode i of volume v;
\* each eviction step removes the entry of the next selected key and leaves
\* every other entry in place; the call returns when every selected key has
\* had its step.
C19_EvictExactly ==
  [][\A t \in Callers :
       /\ \A v \in Volumes :
            BeginEvictVolume(t, v) => Selects(t, KeysOfVolume(v) \cap PresentKeys)
       /\ \A v \in Volumes, i \in Inodes :
            BeginEvictInode(t, v, i) => Selects(t, KeysOfInode(v, i) \cap PresentKeys)
       /\ th[t].pc = "ev_evict" /\ th'[t].pc # "ev_evict"
            => cache'.items = SelectSeq(cache.items, LAMBDA e : e.key # Head(th[t].keys))
       /\ th[t].pc \in {"ev_lock", "ev_evict"} /\ th'[t].pc = "done"
            => th'[t].keys = << >>]_vars

\* EvictInodeCache of inode 1 has returned: the block of inode 1 is destroyed
\* and the entry of inode 12 of the same volume is still in the LRU
C19_Witness ==
  \E t \in Callers :
    /\ th[t].op = "EvictInodeCache" /\ th[t].pc = "done"
    /\ KeyOf(ReqA12) \in PresentKeys
    /\ KeyOf(ReqA1) \notin PresentKeys
    /\ \E b \in BlocksOf(KeyOf(ReqA1)) : Destroyed(b)

\* both destructors of block b have run, and neither returned an error
DestructorsSucceeded(b) == bs.blocks[b].log = << "Close", "Delete" >>

\* C20: a key is in the failedKeys of EvictVolumeCache or EvictInodeCache only
\* if the call's eviction of that key ran the destructors of its entry and one
\* of them returned an error: the entry was in the LRU when the call evicted
\* it, and no block of the key was removed with both destructors succeeding.
C20_FailedKeys ==
  \A t \in Callers :
    th[t].op \in {"EvictVolumeCache", "EvictInodeCache"}
      => \A k \in Range(th[t].failed) :
           ~ \E b \in BlocksOf(k) : DestructorsSucceeded(b)

(***************************************************************************)
(* Failing admissions.                                                     *)
(***************************************************************************)
\* the entries of the LRU, as a set
Entries(c) == {[key |-> c.items[i].key, value |-> c.items[i].value] : i \in 1 .. Len(c.items)}

\* caller t is inside a CreateBlock that has constructed a block (the key had
\* no entry) which weighs more than the byte cap
OverWeightCall(t) ==
  /\ th[t].op = "PrepareCache"
  /\ th[t].pc \in {"cc_set", "cc_unlock", "cb_delete"}
  /\ computeAllocSize(th[t].req.Sources) > LruMaxAlloc

\* C21: a CreateBlock whose block weighs more than max_alloc_bytes evicts
\* nothing and fails with OverWeight: none of its steps changes the set of LRU
\* entries, its Set on the open LRU fails with OverWeight, and it returns an
\* error and no block.
C21_OverWeightEvictsNothing ==
  [][\A t \in Callers :
       OverWeightCall(t) /\ th'[t] # th[t]
         => /\ Entries(cache') = Entries(cache)
            /\ th[t].pc = "cc_set" /\ ~cache.closed => th'[t].err = "OverWeight"
            /\ th'[t].pc = "done" => th'[t].err # Nil /\ th'[t].ret = NoBlock]_vars

\* C23: a PrepareCache (CreateBlock) with an empty source list returns the
\* no-sources error and no block at once: the call takes no stripe lock, and
\* leaves the LRU, the blocks and their files, and the task channel as they
\* were.
C23_NoSources ==
  [][\A t \in Callers :
       th'[t] # th[t] /\ th'[t].op = "PrepareCache" /\ Len(th'[t].req.Sources) = 0
         => /\ th'[t].pc = "done"
            /\ th'[t].err = "no source data"
            /\ th'[t].ret = NoBlock
            /\ th'[t].held = {}
            /\ UNCHANGED << cache, bs, locks, taskCh >>]_vars

\* a call without sources has failed on a key that has a live entry
C23_Witness ==
  \E t \in Callers :
    /\ th[t].op = "PrepareCache" /\ th[t].pc = "done"
    /\ th[t].req = ReqNoSource
    /\ th[t].err = "no source data"
    /\ KeyOf(ReqNoSource) \in PresentKeys

(***************************************************************************)
(* Evictions and admissions of one key.                                    *)
(***************************************************************************)
\* caller t is inside createCacheBlock with the stripe lock of its key held
InCreateSection(t) ==
  /\ th[t].op = "PrepareCache"
  /\ th[t].pc \in {"cc_peek", "cc_set", "cc_unlock"}

\* the step leaves the entry of key k in the LRU and runs no destructor on a
\* block of k
Keeps(k) ==
  /\ Present(cache.items, k)
       => /\ Present(cache'.items, k)
          /\ cache'.items[IndexOf(cache'.items, k)].value = cache.items[IndexOf(cache.items, k)].value
  /\ \A b \in BlocksOf(k) : bs'.blocks[b].log = bs.blocks[b].log

\* C25: while a caller holds the stripe lock of key k inside createCacheBlock,
\* no step of another thread removes the entry of k from the LRU or runs a
\* destructor of a block of k.
C25_EvictionsSerialized ==
  [][\A t \in Callers :
       InCreateSection(t) /\ th'[t] = th[t] => Keeps(th[t].key)]_vars

(***************************************************************************)
(* Termination of the operations that take stripe locks.                   *)
(***************************************************************************)
\* C26: every operation that has begun completes, whatever runs beside it:
\* a caller inside PrepareCache or EvictAllCache, two EvictAllCache calls
\* taking the stripes in parallel included, eventually returns.
C26_OperationsComplete ==
  \A t \in Callers : [](th[t].pc # "idle" => <>(th[t].pc = "done"))

(***************************************************************************)
(* The files under the root path.                                          *)
(***************************************************************************)
\* no operation is in flight: every caller is between calls and every worker
\* waits for a task
Quiet ==
  /\ \A t \in Callers : th[t].pc \in {"idle", "done"}
  /\ \A w \in Workers : th[w].pc \in {"w_recv", "w_exit"}

\* C27: whenever no operation is in flight on a running engine, the root path
\* holds the sentinel and exactly one file per live entry: every block file is
\* the file of a key that has an LRU entry, and every entry whose
\* initCacheStore succeeded has its file.
C27_OneFilePerEntry ==
  Quiet /\ ~Stopping
    => /\ initFileExists(store.layers)
       /\ \A k \in bs.files : k \in PresentKeys
       /\ \A i \in 1 .. Len(cache.items) :
            bs.blocks[cache.items[i].value].store = "ok" => cache.items[i].key \in bs.files

\* C28: the deleteCacheBlock of a failing CreateBlock removes from the LRU at
\* most the entry the same call inserted: an entry it removes holds the block
\* this call constructed, never a block another call admitted for the key.
C28_EvictsOwnEntryOnly ==
  [][\A t \in Callers :
       th[t].pc = "cb_delete" /\ th'[t].pc = "done"
         => \A e \in Entries(cache) \ Entries(cache') : e.value = th[t].blk]_vars

(***************************************************************************)
(* The workers and the blocks they fill.                                   *)
(***************************************************************************)
\* C29: a worker is inside InitOnce of a block (fetching the sources and
\* writing them into the block's file) only when the initCacheStore of the
\* call that created the block has completed.
C29_InitAfterStore ==
  \A w \in Workers :
    th[w].pc = "w_read" => bs.blocks[th[w].blk].store # "none"

\* C30: no worker starts or continues filling a block whose destructors have
\* run: a step that enters InitOnce's initialization of a block, or reads a
\* source into it, is taken only while neither Close nor Delete has run on it.
C30_NoFillAfterDestroy ==
  [][\A b \in 1 .. Len(bs.blocks) :
       \/ bs'.blocks[b].reads # bs.blocks[b].reads
       \/ bs.blocks[b].once = "fresh" /\ bs'.blocks[b].once = "running"
       => ~Destroyed(b)]_vars

(***************************************************************************)
(* The eviction monitor call of createCacheBlock.                          *)
(***************************************************************************)
\* C31: createCacheBlock calls monitor(volume, CacheEvict, n) exactly when its
\* Set inserted the new entry and evicted n > 0 bytes: the n of a Set that
\* succeeds is the weight of the entries it removed and the n of a Set that
\* fails is 0; the call is made once, after initCacheStore, with the call's
\* volume and that n; a PrepareCache that has left createCacheBlock has made
\* the call if and only if its own Set evicted bytes.
C31_EvictMonitor ==
  [][\A t \in Callers :
       /\ th[t].pc = "cc_set" /\ th'[t].pc # "cc_set"
            => th'[t].n = IF th'[t].err = Nil
                          THEN UsedBytes(bs.blocks, cache.items) + bs.blocks[th[t].blk].allocSize
                                 - UsedBytes(bs'.blocks, cache'.items)
                          ELSE 0
       /\ th'[t].op = "PrepareCache" /\ th'[t].mon # th[t].mon /\ th'[t].mon # << >>
            => /\ th[t].pc = "cc_init"
               /\ th[t].n > 0
               /\ bs.blocks[th[t].blk].inserted
               /\ th'[t].mon = << << th[t].req.Volume, ActionCacheEvict, th[t].n >> >>
       /\ th'[t].op = "PrepareCache" /\ th'[t].pc \in {"pc_send", "cb_delete", "done"}
            => (th'[t].mon # << >> <=> th'[t].n > 0)]_vars

\* a PrepareCache whose Set evicted bytes has made the monitor call
C31_Witness ==
  \E t \in Callers :
    /\ th[t].op = "PrepareCache" /\ th[t].pc = "done"
    /\ th[t].n > 0
    /\ th[t].mon = << << th[t].req.Volume, ActionCacheEvict, th[t].n >> >>

\* C32: a worker's lookup of its task's block changes neither the LRU (its
\* order and its counters included) nor the blocks and their files; when the
\* block is no longer in the LRU the worker reads no source and waits for the
\* next task, leaving the queued tasks in place; a worker fills only a block
\* its lookup found.
C32_WorkerLookup ==
  [][\A w \in Workers :
       /\ th[w].pc \in {"w_rlock", "w_peek"} /\ th'[w] # th[w]
            => UNCHANGED << cache, bs, taskCh >>
       /\ th[w].pc = "w_peek" /\ th'[w] # th[w]
            => IF th[w].key \in PresentKeys
               THEN /\ th'[w].pc = "w_init"
                    /\ th'[w].blk = cache.items[IndexOf(cache.items, th[w].key)].value
               ELSE th'[w].pc = "w_recv"
       /\ th'[w].pc \in {"w_init", "w_read"} /\ th'[w] # th[w]
            => th[w].pc \in {"w_peek", "w_init", "w_read"}]_vars

\* a worker looks up the block of a task after the block was evicted, while
\* another task is queued
C32_Witness ==
  \E w \in Workers :
    /\ th[w].pc = "w_peek"
    /\ th[w].key \notin PresentKeys
    /\ \E b \in BlocksOf(th[w].key) : Destroyed(b)
    /\ taskCh # << >>

(***************************************************************************)
(* PrepareCache of a key that has a block.                                 *)
(***************************************************************************)
\* C33: a createCacheBlock that finds an entry of its key returns the block of
\* that entry and no error, and leaves the LRU (the entries, their expiry,
\* their order, the hit and miss counters) and the blocks (their allocated
\* sizes included) as they were, whatever the request's TTL and sources; so
\* does the rest of the PrepareCache.
C33_ExistingBlockUntouched ==
  [][\A t \in Callers :
       /\ th[t].pc = "cc_peek" /\ th'[t] # th[t] /\ th[t].key \in PresentKeys
            => /\ UNCHANGED << cache, bs >>
               /\ th'[t].pc = "pc_send"
               /\ th'[t].err = Nil
               /\ th'[t].blk = cache.items[IndexOf(cache.items, th[t].key)].value
       /\ th[t].pc = "pc_send" /\ th'[t] # th[t]
            => /\ UNCHANGED << cache, bs >>
               /\ th'[t].pc = "done"
               /\ th'[t].ret = th[t].blk]_vars

\* a PrepareCache has returned the live block of its key, a block made for
\* other sources and not at the head of the LRU
C33_Witness ==
  \E t \in Callers :
    /\ Returned(t) /\ th[t].pc = "done"
    /\ InLru(th[t].blk)
    /\ bs.blocks[th[t].blk].allocSize # computeAllocSize(th[t].req.Sources)
    /\ Head(cache.items).value # th[t].blk

(***************************************************************************)
(* Stop when the LRU fails to close.                                       *)
(***************************************************************************)
\* a Stop has returned the error of lruCache.Close
StopFailed == \E t \in Callers : th[t].op = "Stop" /\ th[t].pc = "done" /\ th[t].err # Nil

\* C34: when lruCache.Close fails, Stop returns the error and does nothing
\* more: closeC stays open and the engine not closed, so no worker returns,
\* and the root path stays mounted.
C34_StopCloseError ==
  StopFailed
    => /\ ~closeC
       /\ ~closed
       /\ store.layers = StoreOfEngine.layers
       /\ \A w \in Workers : th[w].pc # "w_exit"

\* a Stop has failed and a worker is filling a block
C34_Witness ==
  /\ StopFailed
  /\ \E w \in Workers : th[w].pc = "w_read"

(***************************************************************************)
(* PeekCacheBlock.                                                         *)
(***************************************************************************)
\* C24: PeekCacheBlock never returns a nil block together with a nil error,
\* also when lruCache.Peek panics: a caller's peek that has returned without a
\* block has returned an error, no worker goes on with a nil block, and a peek
\* that has returned holds no read lock.
C24_PeekFailed ==
  /\ \A t \in Callers :
       th[t].op = "PeekCacheBlock" /\ th[t].pc = "done"
         => /\ th[t].ret = NoBlock => th[t].err # Nil
            /\ \A s \in Stripes : t \notin locks[s].r
  /\ \A w \in Workers : th[w].pc # "w_nil"

(***************************************************************************)
(* The TTL of an admitted entry.                                           *)
(***************************************************************************)
\* C22: the entry a CreateBlock inserts expires req.TTL seconds after the
\* insertion when req.TTL is positive, and expireTime seconds (the default TTL
\* the engine was constructed with) after it when req.TTL is zero or negative.
C22_DefaultTTL ==
  [][\A t \in Callers :
       th[t].pc = "cc_set" /\ th'[t].pc = "cc_unlock" /\ th'[t].err = Nil
         => /\ Present(cache'.items, th[t].key)
            /\ cache'.items[IndexOf(cache'.items, th[t].key)].expire
                 = now + (IF th[t].req.TTL <= 0 THEN ExpireTime ELSE th[t].req.TTL)]_vars

(***************************************************************************)
(* Reads.                                                                  *)
(***************************************************************************)
\* the entry of the key in the LRU, in the state before the step
EntryOf(k) == cache.items[IndexOf(cache.items, k)]
Live(k) == ~cache.closed /\ Present(cache.items, k)
Expired(k) == Live(k) /\ now >= EntryOf(k).expire

\* what GetCacheBlockForRead has done when its lookup is over
GetOutcome(t) ==
  LET k == th[t].key
  IN GetGet(t) =>
       IF Live(k) /\ ~Expired(k)
       THEN /\ th'[t].ret = EntryOf(k).value
            /\ th'[t].err = Nil
            /\ th'[t].mon = << >>
            /\ bs' = bs
            /\ cache'.items[1] = EntryOf(k)
       ELSE IF Expired(k)
       THEN /\ th'[t].ret = NoBlock
            /\ th'[t].err # Nil
            /\ th'[t].mon = << << th[t].vol, ActionCacheExpire, ReadSize >> >>
            /\ ~Present(cache'.items, k)
            /\ bs'.blocks[EntryOf(k).value].log = << "Close", "Delete" >>
       ELSE /\ th'[t].ret = NoBlock
            /\ th'[t].err # Nil
            /\ th'[t].mon = << >>
            /\ bs' = bs
            /\ cache'.items = cache.items

\* C6: GetCacheBlockForRead returns the block of a present, unexpired entry;
\* for a present, expired entry it removes the entry, runs the block's
\* destructors, makes one expire monitor call with the volume and the requested
\* size, and returns an error; for an absent key it returns an error and makes
\* no monitor call.
C6_GetOutcome == [][\A t \in Callers : GetOutcome(t)]_vars

\* a read has found its entry expired: the monitor was called, the block is
\* destroyed and the entry is gone
C6_Witness ==
  \E t \in Callers :
    /\ th[t].op = "GetCacheBlockForRead" /\ th[t].pc = "done"
    /\ th[t].mon = << << th[t].vol, ActionCacheExpire, ReadSize >> >>
    /\ th[t].err # Nil
    /\ ~Present(cache.items, th[t].key)
    /\ \E b \in BlocksOf(th[t].key) : Destroyed(b)

\* a PrepareCache of the key that has returned this block without an error
Prepared(k, b) ==
  \E t \in Callers :
    /\ th[t].op = "PrepareCache" /\ th[t].pc = "done"
    /\ th[t].err = Nil
    /\ th[t].key = k
    /\ th[t].ret = b

\* C9: when a PrepareCache of a key has returned a block without an error, and
\* since then the block has not been destroyed (no eviction), no entry of the
\* key has expired and the LRU has not been closed, the lookup of
\* GetCacheBlockForRead for the key returns that block, initialised or not.
C9_PreparedIsFound ==
  [][\A t \in Callers : \A b \in 1 .. Len(bs.blocks) :
        /\ GetGet(t)
        /\ Prepared(th[t].key, b)
        /\ ~Destroyed(b)
        /\ ~Expired(th[t].key)
        /\ ~cache.closed
        => th'[t].ret = b /\ th'[t].err = Nil]_vars

\* a read has returned the block that a finished PrepareCache of another caller
\* returned, before any worker initialised it
C9_Witness ==
  \E t, u \in Callers :
    /\ th[t].op = "GetCacheBlockForRead" /\ th[t].pc = "done"
    /\ th[t].err = Nil
    /\ Prepared(th[t].key, th[t].ret)
    /\ th[u].op = "PrepareCache" /\ th[u].ret = th[t].ret
    /\ bs.blocks[th[t].ret].once = "fresh"

\* C10: the steps of PeekCacheBlock (a caller entering or leaving its lookup),
\* from its call to its return, leave the LRU (its
\* entries, their order, its hit and miss counts) and every block as they are,
\* and makes no monitor call, whether the entry is live, expired or absent.
C10_PeekIsPure ==
  [][\A t \in Callers :
        th'[t].pc # th[t].pc /\ "p_peek" \in {th[t].pc, th'[t].pc}
          => cache' = cache /\ bs' = bs /\ th'[t].mon = << >>]_vars

\* a peek has returned an expired entry that is not the most recently used one
C10_Witness ==
  \E t \in Callers :
    /\ th[t].op = "PeekCacheBlock" /\ th[t].pc = "done"
    /\ th[t].ret # NoBlock
    /\ Expired(th[t].key)
    /\ IndexOf(cache.items, th[t].key) > 1

DropWhenFull(t) ==
  SendToPrepareTaskCh(t) /\ Len(taskCh) = PrepareTaskChCap
    => /\ taskCh' = taskCh
       /\ th'[t].pc = "done"
       /\ th'[t].sent = "dropped"

\* C8: the channel never holds more than its 1024 tasks; a caller that is
\* about to post can always take its step (the post does not wait); and a post
\* into the full channel drops the task and leaves the channel unchanged.
C8_PostNeverBlocks ==
  /\ [](/\ Len(taskCh) <= PrepareTaskChCap
        /\ \A t \in Callers : th[t].pc = "pc_send" => ENABLED SendToPrepareTaskCh(t))
  /\ [][\A t \in Callers : DropWhenFull(t)]_vars

\* the channel is full and a task has been dropped
C8_Witness ==
  /\ Len(taskCh) = PrepareTaskChCap
  /\ \E t \in Callers : th[t].sent = "dropped"

====
